---------------------------- MODULE Spec2Model ----------------------------
(***************************************************************************)
(* Reserve monitoring and capital adequacy analysis                        *)
(* (01_Python_Scripts/reserve_monitoring.py, class ReserveMonitoring), and *)
(* the summary tables of 01_Python_Scripts/powerbi_data_prep.py (class     *)
(* PowerBIDataPrep), with the scorers of excel_automation.py and           *)
(* data_etl_analysis.py and the Reserve Monitoring sheet of                *)
(* excel_automation.py as operators on the same tables.                    *)
(*                                                                         *)
(* Spec is the ReserveMonitoring object (df, reserve_analysis,             *)
(* stress_test_results), the values its methods return, the files it       *)
(* exports and the CSV file behind data_path, with or without one of its   *)
(* columns.  SpecPowerBI is the PowerBIDataPrep object.  SpecEnvironment   *)
(* is Spec in an environment that replaces the CSV file between two calls  *)
(* and in which one of the exported files may not be writable.  A table    *)
(* is a bag of rows: no modelled computation depends on the order of the   *)
(* rows.                                                                   *)
(* Only the columns read by the scoring, loss-ratio, reserve, stress and   *)
(* summary computations are kept; the recommendation texts and the         *)
(* dashboard plots are left out.                                           *)
(*                                                                         *)
(* Numbers.  A pandas float is modelled exactly, as a decimal with six     *)
(* fractional digits: Num(u, f) stands for u + f / Frac, 0 <= f < Frac,    *)
(* and NaN is the missing value.  A quotient is kept as the pair of its    *)
(* operands (a Ratio), with the IEEE results of a division by zero.        *)
(***************************************************************************)
EXTENDS Integers, Sequences, FiniteSets, Bags, TLC

\* ------------------------------------------------------------------------
\* Floating point values (exact decimal arithmetic)
\* ------------------------------------------------------------------------

Frac == 10^6
Cent == 10^4

Num(u, f) == [k |-> "num", u |-> u, f |-> f]

NaN == [k |-> "nan", u |-> 0, f |-> 0]

FromInt(n) == Num(n, 0)

Zero == FromInt(0)

One == FromInt(1)

IsNaN(x) == x.k = "nan"

\* x + y
Add(x, y) ==
  IF IsNaN(x) \/ IsNaN(y) THEN NaN
  ELSE LET s == x.f + y.f IN Num(x.u + y.u + (s \div Frac), s % Frac)

\* -x
Neg(x) ==
  IF IsNaN(x) THEN NaN
  ELSE IF x.f = 0 THEN Num(0 - x.u, 0) ELSE Num(0 - x.u - 1, Frac - x.f)

\* x - y
Sub(x, y) == Add(x, Neg(y))

\* Comparisons; every comparison with NaN is false, as in Python.
Lt(x, y) == ~IsNaN(x) /\ ~IsNaN(y) /\ (x.u < y.u \/ (x.u = y.u /\ x.f < y.f))

Le(x, y) == ~IsNaN(x) /\ ~IsNaN(y) /\ (x.u < y.u \/ (x.u = y.u /\ x.f <= y.f))

Gt(x, y) == Lt(y, x)

Ge(x, y) == Le(y, x)

\* x * n / d for a natural n <= 2000 and d in 1..100 dividing the product
Scale(x, n, d) ==
  IF IsNaN(x) THEN NaN
  ELSE LET fn == x.f * n
           un == x.u * n + (fn \div Frac)
           f1 == fn % Frac
       IN Num(un \div d, (((un % d) * Frac) + f1) \div d)

\* x * m for a non-negative literal m with at most two decimals
\* (0.15, 1000, 3, 1.8, ...)
Mul(x, m) ==
  IF m.f = 0 THEN Scale(x, m.u, 1)
  ELSE IF m.f % (10 * Cent) = 0
       THEN Scale(x, m.u * 10 + (m.f \div (10 * Cent)), 10)
  ELSE Scale(x, m.u * 100 + (m.f \div Cent), 100)

\* round(2): numpy rounds half to even
Round2(x) ==
  IF IsNaN(x) THEN NaN
  ELSE LET c   == x.f \div Cent
           rem == x.f % Cent
           up  == rem * 2 > Cent \/ (rem * 2 = Cent /\ c % 2 = 1)
           c1  == IF up THEN c + 1 ELSE c
       IN IF c1 * Cent = Frac THEN Num(x.u + 1, 0) ELSE Num(x.u, c1 * Cent)

\* ------------------------------------------------------------------------
\* Quotients
\* ------------------------------------------------------------------------

Fin(n, d) == [k |-> "fin", num |-> n, den |-> d]

RatioNaN == [k |-> "nan", num |-> Zero, den |-> Zero]

RatioInf == [k |-> "inf", num |-> Zero, den |-> Zero]

RatioNegInf == [k |-> "-inf", num |-> Zero, den |-> Zero]

RatioZero == Fin(Zero, One)

\* x / y on float64 columns: a division by zero gives inf, -inf or NaN
Div(x, y) ==
  IF IsNaN(x) \/ IsNaN(y) THEN RatioNaN
  ELSE IF y = Zero
       THEN IF Gt(x, Zero) THEN RatioInf
            ELSE IF Lt(x, Zero) THEN RatioNegInf ELSE RatioNaN
       ELSE Fin(x, y)

\* Series.fillna(0) on a quotient column
FillNaRatio(q) == IF q.k = "nan" THEN RatioZero ELSE q

\* Series.fillna(v)
FillNa(x, v) == IF IsNaN(x) THEN v ELSE x

\* ------------------------------------------------------------------------
\* Tables: a table is a bag of rows (a function from rows to their counts)
\* ------------------------------------------------------------------------

None == <<>>

Some(x) == <<x>>

Val(o) == o[1]

\* len(df)
RECURSIVE Len_(_, _)
Len_(S, b) ==
  IF S = {} THEN 0
  ELSE LET r == CHOOSE x \in S : TRUE IN b[r] + Len_(S \ {r}, b)

NumRows(b) == Len_(DOMAIN b, b)

\* Series.sum(): missing values are skipped, the sum of no value is 0
RECURSIVE Sum_(_, _, _)
Sum_(S, b, col) ==
  IF S = {} THEN Zero
  ELSE LET r == CHOOSE x \in S : TRUE
       IN Add(IF IsNaN(r[col]) THEN Zero ELSE Scale(r[col], b[r], 1),
              Sum_(S \ {r}, b, col))

ColSum(b, col) == Sum_(DOMAIN b, b, col)

\* Series.count(): the number of values that are not missing
ColCount(b, col) ==
  LET present == {r \in DOMAIN b : ~IsNaN(r[col])}
  IN Len_(present, b)

\* Series.median(): the middle value of the values that are not missing,
\* the mean of the two middle values when their number is even, NaN when
\* there is none
Median(b, col) ==
  LET present == {r \in DOMAIN b : ~IsNaN(r[col])}
      n       == Len_(present, b)
      below(v)   == Len_({r \in present : Lt(r[col], v)}, b)
      upto(v)    == Len_({r \in present : Le(r[col], v)}, b)
      kth(i)  == CHOOSE v \in {r[col] : r \in present} :
                    below(v) < i /\ i <= upto(v)
  IN IF n = 0 THEN NaN
     ELSE IF n % 2 = 1 THEN kth((n + 1) \div 2)
     ELSE Scale(Add(kth(n \div 2), kth((n \div 2) + 1)), 1, 2)

\* the rows of b that satisfy the key, as a table
GroupOf(b, col, key) ==
  LET members == {r \in DOMAIN b : r[col] = key}
  IN [r \in members |-> b[r]]

\* ------------------------------------------------------------------------
\* Risk scoring
\* ------------------------------------------------------------------------

\* _calculate_risk_score with the health band closed at 40 (<= for <)
calculate_risk_score_health40(row) ==
  LET a == IF Lt(row.Age, FromInt(25)) \/ Gt(row.Age, FromInt(65)) THEN 2
           ELSE IF Le(FromInt(25), row.Age) /\ Le(row.Age, FromInt(35)) THEN 1
           ELSE 0
      c == IF Gt(row.PreviousClaims, FromInt(2)) THEN 3
           ELSE IF Gt(row.PreviousClaims, Zero) THEN 1 ELSE 0
      h == IF Lt(row.HealthScore, FromInt(20)) THEN 2
           ELSE IF Le(row.HealthScore, FromInt(40)) THEN 1 ELSE 0
      s == IF Lt(row.CreditScore, FromInt(500)) THEN 2
           ELSE IF Lt(row.CreditScore, FromInt(650)) THEN 1 ELSE 0
  IN a + c + h + s + (IF row.SmokingStatus = "Yes" THEN 2 ELSE 0)
       + (IF row.ExerciseFrequency = "Rarely" THEN 1 ELSE 0)

\* _calculate_risk_score with the two claims branches both taken
\* (if ... if for if ... elif) and the smoking weight doubled
calculate_risk_score_overweight(row) ==
  LET a == IF Lt(row.Age, FromInt(25)) \/ Gt(row.Age, FromInt(65)) THEN 2
           ELSE IF Le(FromInt(25), row.Age) /\ Le(row.Age, FromInt(35)) THEN 1
           ELSE 0
      c == (IF Gt(row.PreviousClaims, FromInt(2)) THEN 3 ELSE 0)
           + (IF Gt(row.PreviousClaims, Zero) THEN 1 ELSE 0)
      h == IF Lt(row.HealthScore, FromInt(20)) THEN 2
           ELSE IF Lt(row.HealthScore, FromInt(40)) THEN 1 ELSE 0
      s == IF Lt(row.CreditScore, FromInt(500)) THEN 2
           ELSE IF Lt(row.CreditScore, FromInt(650)) THEN 1 ELSE 0
  IN a + c + h + s + (IF row.SmokingStatus = "Yes" THEN 4 ELSE 0)
       + (IF row.ExerciseFrequency = "Rarely" THEN 1 ELSE 0)

\* _calculate_risk_score with rare exercise weighing as much as smoking
calculate_risk_score_exercise2(row) ==
  LET a == IF Lt(row.Age, FromInt(25)) \/ Gt(row.Age, FromInt(65)) THEN 2
           ELSE IF Le(FromInt(25), row.Age) /\ Le(row.Age, FromInt(35)) THEN 1
           ELSE 0
      c == IF Gt(row.PreviousClaims, FromInt(2)) THEN 3
           ELSE IF Gt(row.PreviousClaims, Zero) THEN 1 ELSE 0
      h == IF Lt(row.HealthScore, FromInt(20)) THEN 2
           ELSE IF Lt(row.HealthScore, FromInt(40)) THEN 1 ELSE 0
      s == IF Lt(row.CreditScore, FromInt(500)) THEN 2
           ELSE IF Lt(row.CreditScore, FromInt(650)) THEN 1 ELSE 0
  IN a + c + h + s + (IF row.SmokingStatus = "Yes" THEN 2 ELSE 0)
       + (IF row.ExerciseFrequency = "Rarely" THEN 2 ELSE 0)

\* ReserveMonitoring._calculate_risk_score, one iteration of the row loop:
\* risk_score starts at 0 and each factor adds its points to it
_calculate_risk_score(row) ==
  LET age      == IF Lt(row.Age, FromInt(25)) \/ Gt(row.Age, FromInt(65))
                    THEN 2
                  ELSE IF Le(FromInt(25), row.Age) /\ Le(row.Age, FromInt(35))
                    THEN 1
                  ELSE 0
      claims   == IF Gt(row.PreviousClaims, FromInt(2)) THEN 3
                  ELSE IF Gt(row.PreviousClaims, Zero) THEN 1
                  ELSE 0
      health   == IF Lt(row.HealthScore, FromInt(20)) THEN 2
                  ELSE IF Lt(row.HealthScore, FromInt(40)) THEN 1
                  ELSE 0
      credit   == IF Lt(row.CreditScore, FromInt(500)) THEN 2
                  ELSE IF Lt(row.CreditScore, FromInt(650)) THEN 1
                  ELSE 0
      smoking  == IF row.SmokingStatus = "Yes" THEN 2 ELSE 0
      exercise == IF row.ExerciseFrequency = "Rarely" THEN 1 ELSE 0
  IN 0 + age + claims + health + credit + smoking + exercise

\* _categorize_risk with the Medium band ending below 4 (< for <=)
categorize_risk_open4(score) ==
  IF score <= 2 THEN "Low"
  ELSE IF score < 4 THEN "Medium"
  ELSE IF score <= 6 THEN "High"
  ELSE "Very High"

\* ReserveMonitoring._categorize_risk
_categorize_risk(score) ==
  IF score <= 2 THEN "Low"
  ELSE IF score <= 4 THEN "Medium"
  ELSE IF score <= 6 THEN "High"
  ELSE "Very High"

\* ------------------------------------------------------------------------
\* load_and_prepare_data
\* ------------------------------------------------------------------------

\* the fillna statements: medians for Age, Health Score and Credit Score,
\* 0 for Previous Claims
Impute(raw, r) ==
  [r EXCEPT !.Age            = FillNa(r.Age, Median(raw, "Age")),
            !.HealthScore    = FillNa(r.HealthScore, Median(raw, "HealthScore")),
            !.PreviousClaims = FillNa(r.PreviousClaims, Zero),
            !.CreditScore    = FillNa(r.CreditScore, Median(raw, "CreditScore"))]

\* the loss ratio without the fillna(0) that follows the division
LossRatioUnfilled(r) ==
  Div(Mul(r.PreviousClaims, FromInt(1000)), r.PremiumAmount)

\* df['Loss Ratio'] for one row
LossRatio(r) ==
  FillNaRatio(Div(Mul(r.PreviousClaims, FromInt(1000)), r.PremiumAmount))

\* the derived columns of one imputed row
Enrich(r) ==
  LET score == _calculate_risk_score(r)
  IN [Age               |-> r.Age,
      PreviousClaims    |-> r.PreviousClaims,
      HealthScore       |-> r.HealthScore,
      CreditScore       |-> r.CreditScore,
      SmokingStatus     |-> r.SmokingStatus,
      ExerciseFrequency |-> r.ExerciseFrequency,
      PremiumAmount     |-> r.PremiumAmount,
      RiskScore         |-> score,
      RiskCategory      |-> _categorize_risk(score),
      LossRatio         |-> LossRatio(r)]

\* the table after the fillna statements; rows that become equal are
\* counted together
ImputedTable(raw) ==
  LET image == {Impute(raw, r) : r \in DOMAIN raw}
  IN [e \in image |-> Len_({r \in DOMAIN raw : Impute(raw, r) = e}, raw)]

\* the table with its derived columns
EnrichedTable(table) ==
  LET image == {Enrich(r) : r \in DOMAIN table}
  IN [e \in image |-> Len_({r \in DOMAIN table : Enrich(r) = e}, table)]

\* the table load_and_prepare_data stores in self.df
PrepareData(raw) == EnrichedTable(ImputedTable(raw))

\* ------------------------------------------------------------------------
\* calculate_reserve_requirements
\* ------------------------------------------------------------------------

\* risk_multipliers with the Low and Medium rates exchanged
risk_multipliers_swapped(category) ==
  CASE category = "Low"       -> Num(0, 150000)
    [] category = "Medium"    -> Num(0, 100000)
    [] category = "High"      -> Num(0, 250000)
    [] category = "Very High" -> Num(0, 350000)
    [] OTHER                  -> Num(0, 150000)

\* risk_multipliers with the Low rate above the premium-based rate
risk_multipliers_low20(category) ==
  CASE category = "Low"       -> Num(0, 200000)
    [] category = "Medium"    -> Num(0, 150000)
    [] category = "High"      -> Num(0, 250000)
    [] category = "Very High" -> Num(0, 350000)
    [] OTHER                  -> Num(0, 150000)

\* risk_multipliers.get(category, 0.15)
risk_multipliers(category) ==
  CASE category = "Low"       -> Num(0, 100000)
    [] category = "Medium"    -> Num(0, 150000)
    [] category = "High"      -> Num(0, 250000)
    [] category = "Very High" -> Num(0, 350000)
    [] OTHER                  -> Num(0, 150000)

\* DataFrame.max(axis=1) over the four reserve columns
Max2(x, y) == IF Lt(x, y) THEN y ELSE x

\* the four reserves added up instead of compared
RowSum(a, b, c, d) == Add(Add(Add(a, b), c), d)

\* the smallest of the four reserves in the place of the largest
RowMin(a, b, c, d) ==
  LET Min2(x, y) == IF Lt(y, x) THEN y ELSE x
  IN Min2(Min2(Min2(a, b), c), d)

RowMax(a, b, c, d) == Max2(Max2(Max2(a, b), c), d)

\* the reserve row with the claims-based reserves at twice the exposure
\* (2 for 3)
ReserveRow_claims_twice(category, group) ==
  LET TotalPremiums == Round2(ColSum(group, "PremiumAmount"))
      PolicyCount   == ColCount(group, "PremiumAmount")
      TotalClaims   == Round2(ColSum(group, "PreviousClaims"))
      PremiumBased  == Mul(TotalPremiums, Num(0, 150000))
      ClaimsBased   == Mul(Mul(TotalClaims, FromInt(1000)), FromInt(2))
      RiskAdjusted  == Mul(TotalPremiums, risk_multipliers(category))
      IBNR          == Mul(TotalPremiums, Num(0, 50000))
      Required      == RowMax(PremiumBased, ClaimsBased, RiskAdjusted, IBNR)
      Exposure      == Mul(TotalClaims, FromInt(1000))
  IN [RiskCategory          |-> category,
      TotalPremiums         |-> TotalPremiums,
      PolicyCount           |-> PolicyCount,
      TotalClaims           |-> TotalClaims,
      PremiumBasedReserves  |-> PremiumBased,
      ClaimsBasedReserves   |-> ClaimsBased,
      RiskAdjustedReserves  |-> RiskAdjusted,
      IBNRReserves          |-> IBNR,
      TotalRequiredReserves |-> Required,
      ActualClaimsExposure  |-> Exposure,
      ReserveAdequacy       |-> Sub(Required, Exposure),
      ReserveRatio          |-> Div(Required, Exposure)]

\* one row of the reserve table: the rounded group aggregates and the
\* columns derived from them
ReserveRow(category, group) ==
  LET TotalPremiums == Round2(ColSum(group, "PremiumAmount"))
      PolicyCount   == ColCount(group, "PremiumAmount")
      TotalClaims   == Round2(ColSum(group, "PreviousClaims"))
      PremiumBased  == Mul(TotalPremiums, Num(0, 150000))
      ClaimsBased   == Mul(Mul(TotalClaims, FromInt(1000)), FromInt(3))
      RiskAdjusted  == Mul(TotalPremiums, risk_multipliers(category))
      IBNR          == Mul(TotalPremiums, Num(0, 50000))
      Required      == RowMax(PremiumBased, ClaimsBased, RiskAdjusted, IBNR)
      Exposure      == Mul(TotalClaims, FromInt(1000))
  IN [RiskCategory          |-> category,
      TotalPremiums         |-> TotalPremiums,
      PolicyCount           |-> PolicyCount,
      TotalClaims           |-> TotalClaims,
      PremiumBasedReserves  |-> PremiumBased,
      ClaimsBasedReserves   |-> ClaimsBased,
      RiskAdjustedReserves  |-> RiskAdjusted,
      IBNRReserves          |-> IBNR,
      TotalRequiredReserves |-> Required,
      ActualClaimsExposure  |-> Exposure,
      ReserveAdequacy       |-> Sub(Required, Exposure),
      ReserveRatio          |-> Div(Required, Exposure)]

\* df.groupby('Risk Category'): one row for each category that occurs
ReserveTable(table) ==
  LET keys == {r.RiskCategory : r \in DOMAIN table}
  IN [c \in keys |-> ReserveRow(c, GroupOf(table, "RiskCategory", c))]

\* ------------------------------------------------------------------------
\* perform_stress_testing
\* ------------------------------------------------------------------------

Scenario(name, claims, premium, description) ==
  [name               |-> name,
   claims_multiplier  |-> claims,
   premium_multiplier |-> premium,
   description        |-> description]

\* the catalog without its last scenario
scenarios_five ==
  << Scenario("Base Case", Num(1, 0), Num(1, 0),
              "Current baseline scenario"),
     Scenario("Mild Stress", Num(1, 200000), Num(1, 0),
              "20% increase in claims frequency"),
     Scenario("Moderate Stress", Num(1, 500000), Num(1, 0),
              "50% increase in claims frequency"),
     Scenario("Severe Stress", Num(2, 0), Num(1, 0),
              "100% increase in claims frequency"),
     Scenario("Economic Downturn", Num(1, 800000), Num(0, 900000),
              "Economic downturn with reduced premiums") >>

\* the catalog whose Economic Downturn leaves the premiums as they are
scenarios_full_premiums ==
  << Scenario("Base Case", Num(1, 0), Num(1, 0),
              "Current baseline scenario"),
     Scenario("Mild Stress", Num(1, 200000), Num(1, 0),
              "20% increase in claims frequency"),
     Scenario("Moderate Stress", Num(1, 500000), Num(1, 0),
              "50% increase in claims frequency"),
     Scenario("Severe Stress", Num(2, 0), Num(1, 0),
              "100% increase in claims frequency"),
     Scenario("Economic Downturn", Num(1, 800000), Num(1, 0),
              "Economic downturn with reduced premiums"),
     Scenario("Catastrophic Event", Num(3, 0), Num(1, 0),
              "Catastrophic event scenario") >>

scenarios ==
  << Scenario("Base Case", Num(1, 0), Num(1, 0),
              "Current baseline scenario"),
     Scenario("Mild Stress", Num(1, 200000), Num(1, 0),
              "20% increase in claims frequency"),
     Scenario("Moderate Stress", Num(1, 500000), Num(1, 0),
              "50% increase in claims frequency"),
     Scenario("Severe Stress", Num(2, 0), Num(1, 0),
              "100% increase in claims frequency"),
     Scenario("Economic Downturn", Num(1, 800000), Num(0, 900000),
              "Economic downturn with reduced premiums"),
     Scenario("Catastrophic Event", Num(3, 0), Num(1, 0),
              "Catastrophic event scenario") >>

\* the status with > in the place of >=
adequacy_status_strict(capital_adequacy) ==
  IF Gt(capital_adequacy, Zero) THEN "Adequate" ELSE "Inadequate"

\* 'Adequate' if capital_adequacy >= 0 else 'Inadequate'
adequacy_status(capital_adequacy) ==
  IF Ge(capital_adequacy, Zero) THEN "Adequate" ELSE "Inadequate"

\* one iteration of the scenario loop
StressRow(total_premiums, total_claims, params) ==
  LET stressed_claims   == Mul(total_claims, params.claims_multiplier)
      stressed_premiums == Mul(total_premiums, params.premium_multiplier)
      stressed_loss_ratio ==
        Div(Mul(stressed_claims, FromInt(1000)), stressed_premiums)
      required_reserves == Mul(stressed_premiums, Num(0, 150000))
      actual_claims_exposure == Mul(stressed_claims, FromInt(1000))
      capital_adequacy  == Sub(required_reserves, actual_claims_exposure)
      capital_ratio     ==
        IF Gt(actual_claims_exposure, Zero)
        THEN Div(required_reserves, actual_claims_exposure)
        ELSE RatioZero
  IN [Scenario             |-> params.name,
      Description          |-> params.description,
      ClaimsMultiplier     |-> params.claims_multiplier,
      PremiumMultiplier    |-> params.premium_multiplier,
      TotalPremiums        |-> stressed_premiums,
      TotalClaims          |-> stressed_claims,
      LossRatio            |-> stressed_loss_ratio,
      RequiredReserves     |-> required_reserves,
      ActualClaimsExposure |-> actual_claims_exposure,
      CapitalAdequacy      |-> capital_adequacy,
      CapitalRatio         |-> capital_ratio,
      AdequacyStatus       |-> adequacy_status(capital_adequacy)]

\* the table perform_stress_testing builds from the portfolio totals
StressTable(table) ==
  LET total_premiums == ColSum(table, "PremiumAmount")
      total_claims   == ColSum(table, "PreviousClaims")
  IN [i \in 1..Len(scenarios) |->
        StressRow(total_premiums, total_claims, scenarios[i])]

\* ------------------------------------------------------------------------
\* calculate_capital_adequacy_ratio
\* ------------------------------------------------------------------------

\* Series.sum() of a column of the reserve table
RECURSIVE TableSum_(_, _, _)
TableSum_(S, table, col) ==
  IF S = {} THEN Zero
  ELSE LET c == CHOOSE x \in S : TRUE
       IN Add(table[c][col], TableSum_(S \ {c}, table, col))

TableSum(table, col) == TableSum_(DOMAIN table, table, col)

\* the dictionary calculate_capital_adequacy_ratio returns
CapitalRatios(table) ==
  LET total_required_reserves == TableSum(table, "TotalRequiredReserves")
      total_actual_exposure   == TableSum(table, "ActualClaimsExposure")
      total_premiums          == TableSum(table, "TotalPremiums")
  IN [TotalRequiredReserves |-> total_required_reserves,
      TotalActualExposure   |-> total_actual_exposure,
      TotalPremiums         |-> total_premiums,
      ReserveCoverageRatio  |->
        IF Gt(total_actual_exposure, Zero)
        THEN Div(total_required_reserves, total_actual_exposure)
        ELSE RatioZero,
      PremiumCoverageRatio  |->
        IF Gt(total_premiums, Zero)
        THEN Div(total_required_reserves, total_premiums)
        ELSE RatioZero,
      OverallAdequacy       |->
        Sub(total_required_reserves, total_actual_exposure)]

\* ------------------------------------------------------------------------
\* generate_reserve_recommendations
\* ------------------------------------------------------------------------

\* ratio < n / d for a quotient of the reserve table and a positive literal
\* n / d (0.5 = 1 / 2, 1.2 = 6 / 5); false for NaN, as in Python
RatioLt(q, n, d) ==
  CASE q.k = "fin"  -> IF Gt(q.den, Zero)
                       THEN Lt(Scale(q.num, d, 1), Scale(q.den, n, 1))
                       ELSE Gt(Scale(q.num, d, 1), Scale(q.den, n, 1))
    [] q.k = "-inf" -> TRUE
    [] OTHER        -> FALSE

\* the recommendation with the buffer test at 12 in the place of 1.2
Recommendation_buffer12(row) ==
  [RiskCategory    |-> row.RiskCategory,
   Issue           |-> IF Lt(row.ReserveAdequacy, Zero) THEN "Inadequate Reserves"
                       ELSE IF RatioLt(row.ReserveRatio, 12, 1)
                            THEN "Low Reserve Buffer"
                       ELSE "Adequate Reserves",
   CurrentAdequacy |-> Round2(row.ReserveAdequacy),
   Priority        |-> IF Lt(row.ReserveAdequacy, Zero)
                       THEN IF RatioLt(row.ReserveRatio, 1, 2)
                            THEN "High" ELSE "Medium"
                       ELSE IF RatioLt(row.ReserveRatio, 12, 1) THEN "Medium"
                       ELSE "Low"]

\* the recommendation appended for one row of the reserve table
Recommendation(row) ==
  IF Lt(row.ReserveAdequacy, Zero)
  THEN [RiskCategory    |-> row.RiskCategory,
        Issue           |-> "Inadequate Reserves",
        CurrentAdequacy |-> Round2(row.ReserveAdequacy),
        Priority        |-> IF RatioLt(row.ReserveRatio, 1, 2)
                            THEN "High" ELSE "Medium"]
  ELSE IF RatioLt(row.ReserveRatio, 6, 5)
  THEN [RiskCategory    |-> row.RiskCategory,
        Issue           |-> "Low Reserve Buffer",
        CurrentAdequacy |-> Round2(row.ReserveAdequacy),
        Priority        |-> "Medium"]
  ELSE [RiskCategory    |-> row.RiskCategory,
        Issue           |-> "Adequate Reserves",
        CurrentAdequacy |-> Round2(row.ReserveAdequacy),
        Priority        |-> "Low"]

\* the rows of the reserve table in the order of the group keys
CategoryOrder == <<"High", "Low", "Medium", "Very High">>

TableRows(table) ==
  LET present == SelectSeq(CategoryOrder, LAMBDA c : c \in DOMAIN table)
  IN [i \in 1..Len(present) |-> table[present[i]]]

\* the portfolio recommendation emitted also when the total is exactly 0
OverallRecommendation_le(table) ==
  LET total_adequacy == TableSum(table, "ReserveAdequacy")
  IN IF Le(total_adequacy, Zero)
     THEN << [RiskCategory    |-> "Overall Portfolio",
              Issue           |-> "Portfolio-wide Reserve Shortfall",
              CurrentAdequacy |-> Round2(total_adequacy),
              Priority        |-> "Critical"] >>
     ELSE << >>

\* the portfolio recommendation, appended when the total adequacy is < 0
OverallRecommendation(table) ==
  LET total_adequacy == TableSum(table, "ReserveAdequacy")
  IN IF Lt(total_adequacy, Zero)
     THEN << [RiskCategory    |-> "Overall Portfolio",
              Issue           |-> "Portfolio-wide Reserve Shortfall",
              CurrentAdequacy |-> Round2(total_adequacy),
              Priority        |-> "Critical"] >>
     ELSE << >>

\* the table generate_reserve_recommendations returns
Recommendations(table) ==
  LET rows == TableRows(table)
  IN [i \in 1..Len(rows) |-> Recommendation(rows[i])]
       \o OverallRecommendation(table)

\* ------------------------------------------------------------------------
\* PowerBIDataPrep (01_Python_Scripts/powerbi_data_prep.py): the load and
\* the summary tables by Policy Type x Risk Category and by Income Group x
\* Risk Category.  The columns that need Insurance Duration, Gender,
\* Location or the policy dates, and the tables grouped by them, are left
\* out.
\* ------------------------------------------------------------------------

\* the category of a value that falls in no bin
NoGroup == "NaN"

\* pd.cut(df['Age'], bins=[0, 25, 35, 45, 55, 65, 100]): bins closed on the
\* right
AgeGroup(age) ==
  IF IsNaN(age) \/ Le(age, Zero) THEN NoGroup
  ELSE IF Le(age, FromInt(25)) THEN "18-25"
  ELSE IF Le(age, FromInt(35)) THEN "26-35"
  ELSE IF Le(age, FromInt(45)) THEN "36-45"
  ELSE IF Le(age, FromInt(55)) THEN "46-55"
  ELSE IF Le(age, FromInt(65)) THEN "56-65"
  ELSE IF Le(age, FromInt(100)) THEN "65+"
  ELSE NoGroup

\* the categories of the Income Group column
IncomeGroups == {"Low", "Lower-Mid", "Mid", "Upper-Mid", "High"}

\* pd.cut(df['Annual Income'], bins=[0, 30000, 60000, 100000, 200000, inf])
IncomeGroup(income) ==
  IF IsNaN(income) \/ Le(income, Zero) THEN NoGroup
  ELSE IF Le(income, FromInt(30000)) THEN "Low"
  ELSE IF Le(income, FromInt(60000)) THEN "Lower-Mid"
  ELSE IF Le(income, FromInt(100000)) THEN "Mid"
  ELSE IF Le(income, FromInt(200000)) THEN "Upper-Mid"
  ELSE "High"

\* PowerBIDataPrep._calculate_risk_score, one iteration of the row loop
PowerBIDataPrep_calculate_risk_score(row) ==
  LET age      == IF Lt(row.Age, FromInt(25)) \/ Gt(row.Age, FromInt(65))
                    THEN 2
                  ELSE IF Le(FromInt(25), row.Age) /\ Le(row.Age, FromInt(35))
                    THEN 1
                  ELSE 0
      claims   == IF Gt(row.PreviousClaims, FromInt(2)) THEN 3
                  ELSE IF Gt(row.PreviousClaims, Zero) THEN 1
                  ELSE 0
      health   == IF Lt(row.HealthScore, FromInt(20)) THEN 2
                  ELSE IF Lt(row.HealthScore, FromInt(40)) THEN 1
                  ELSE 0
      credit   == IF Lt(row.CreditScore, FromInt(500)) THEN 2
                  ELSE IF Lt(row.CreditScore, FromInt(650)) THEN 1
                  ELSE 0
      smoking  == IF row.SmokingStatus = "Yes" THEN 2 ELSE 0
      exercise == IF row.ExerciseFrequency = "Rarely" THEN 1 ELSE 0
  IN 0 + age + claims + health + credit + smoking + exercise

\* PowerBIDataPrep._categorize_risk
PowerBIDataPrep_categorize_risk(score) ==
  IF score <= 2 THEN "Low"
  ELSE IF score <= 4 THEN "Medium"
  ELSE IF score <= 6 THEN "High"
  ELSE "Very High"

\* the fillna statements of PowerBIDataPrep.load_and_prepare_data
PowerBIImpute(raw, r) ==
  [r EXCEPT !.Age            = FillNa(r.Age, Median(raw, "Age")),
            !.AnnualIncome   = FillNa(r.AnnualIncome,
                                      Median(raw, "AnnualIncome")),
            !.HealthScore    = FillNa(r.HealthScore, Median(raw, "HealthScore")),
            !.PreviousClaims = FillNa(r.PreviousClaims, Zero),
            !.CreditScore    = FillNa(r.CreditScore, Median(raw, "CreditScore"))]

\* the calculated columns of one imputed row
PowerBIEnrich(r) ==
  [Age               |-> r.Age,
   AnnualIncome      |-> r.AnnualIncome,
   PreviousClaims    |-> r.PreviousClaims,
   HealthScore       |-> r.HealthScore,
   CreditScore       |-> r.CreditScore,
   SmokingStatus     |-> r.SmokingStatus,
   ExerciseFrequency |-> r.ExerciseFrequency,
   PremiumAmount     |-> r.PremiumAmount,
   PolicyType        |-> r.PolicyType,
   AgeGroup          |-> AgeGroup(r.Age),
   IncomeGroup       |-> IncomeGroup(r.AnnualIncome),
   RiskScore         |-> PowerBIDataPrep_calculate_risk_score(r),
   RiskCategory      |-> PowerBIDataPrep_categorize_risk(
                           PowerBIDataPrep_calculate_risk_score(r)),
   LossRatio         |-> FillNaRatio(Div(Mul(r.PreviousClaims, FromInt(1000)),
                                         r.PremiumAmount))]

PowerBIImputedTable(raw) ==
  LET image == {PowerBIImpute(raw, r) : r \in DOMAIN raw}
  IN [e \in image |->
        Len_({r \in DOMAIN raw : PowerBIImpute(raw, r) = e}, raw)]

PowerBIEnrichedTable(table) ==
  LET image == {PowerBIEnrich(r) : r \in DOMAIN table}
  IN [e \in image |->
        Len_({r \in DOMAIN table : PowerBIEnrich(r) = e}, table)]

\* the table load_and_prepare_data stores in self.powerbi_data
PowerBIData(raw) == PowerBIEnrichedTable(PowerBIImputedTable(raw))

\* the rows of b with the two keys, as a table
GroupOf2(b, col1, col2, key) ==
  LET members == {r \in DOMAIN b : r[col1] = key[1] /\ r[col2] = key[2]}
  IN [r \in members |-> b[r]]

\* the key pairs of df.groupby([col1, col2]) for two columns of strings:
\* the pairs that occur in the table
ObservedKeys(b, col1, col2) ==
  { <<r[col1], r[col2]>> : r \in {q \in DOMAIN b : q[col1] # NoGroup} }

\* the key pairs when col1 is categorical and groupby runs with
\* observed=False: every category, with every value of col2 in the table
CategoryKeys(b, categories, col1, col2) ==
  categories \X { r[col2] : r \in {q \in DOMAIN b : q[col1] # NoGroup} }

\* one row of policy_summary
PolicySummaryRow(key, group) ==
  [PolicyType    |-> key[1],
   RiskCategory  |-> key[2],
   PolicyCount   |-> ColCount(group, "PremiumAmount"),
   TotalPremiums |-> Round2(ColSum(group, "PremiumAmount")),
   TotalClaims   |-> Round2(ColSum(group, "PreviousClaims"))]

\* df.groupby(['Policy Type', 'Risk Category'])
PolicySummary(table) ==
  [key \in ObservedKeys(table, "PolicyType", "RiskCategory") |->
     PolicySummaryRow(key, GroupOf2(table, "PolicyType", "RiskCategory", key))]

\* one row of customer_segments
CustomerSegmentRow(key, group) ==
  [IncomeGroup   |-> key[1],
   RiskCategory  |-> key[2],
   CustomerCount |-> ColCount(group, "PremiumAmount"),
   TotalPremiums |-> Round2(ColSum(group, "PremiumAmount"))]

\* df.groupby(['Income Group', 'Risk Category']): Income Group is
\* categorical, so the rows depend on the default of observed
CustomerSegments(table, observed_default) ==
  [key \in IF observed_default
           THEN ObservedKeys(table, "IncomeGroup", "RiskCategory")
           ELSE CategoryKeys(table, IncomeGroups, "IncomeGroup",
                             "RiskCategory") |->
     CustomerSegmentRow(key,
                        GroupOf2(table, "IncomeGroup", "RiskCategory", key))]

\* ------------------------------------------------------------------------
\* The scoring of ExcelAutomation (01_Python_Scripts/excel_automation.py)
\* and of InsuranceAnalytics (01_Python_Scripts/data_etl_analysis.py)
\* ------------------------------------------------------------------------

\* ExcelAutomation._calculate_risk_score, one iteration of the row loop
ExcelAutomation_calculate_risk_score(row) ==
  LET age      == IF Lt(row.Age, FromInt(25)) \/ Gt(row.Age, FromInt(65))
                    THEN 2
                  ELSE IF Le(FromInt(25), row.Age) /\ Le(row.Age, FromInt(35))
                    THEN 1
                  ELSE 0
      claims   == IF Gt(row.PreviousClaims, FromInt(2)) THEN 3
                  ELSE IF Gt(row.PreviousClaims, Zero) THEN 1
                  ELSE 0
      health   == IF Lt(row.HealthScore, FromInt(20)) THEN 2
                  ELSE IF Lt(row.HealthScore, FromInt(40)) THEN 1
                  ELSE 0
      credit   == IF Lt(row.CreditScore, FromInt(500)) THEN 2
                  ELSE IF Lt(row.CreditScore, FromInt(650)) THEN 1
                  ELSE 0
      smoking  == IF row.SmokingStatus = "Yes" THEN 2 ELSE 0
      exercise == IF row.ExerciseFrequency = "Rarely" THEN 1 ELSE 0
  IN 0 + age + claims + health + credit + smoking + exercise

\* ExcelAutomation._categorize_risk
ExcelAutomation_categorize_risk(score) ==
  IF score <= 2 THEN "Low"
  ELSE IF score <= 4 THEN "Medium"
  ELSE IF score <= 6 THEN "High"
  ELSE "Very High"

\* _calculate_risk_category with the claims band starting at 2 (>= for >)
calculate_risk_category_claims2(row) ==
  LET age      == IF Lt(row.Age, FromInt(25)) \/ Gt(row.Age, FromInt(65))
                    THEN 2
                  ELSE IF Le(FromInt(25), row.Age) /\ Le(row.Age, FromInt(35))
                    THEN 1
                  ELSE 0
      claims   == IF Ge(row.PreviousClaims, FromInt(2)) THEN 3
                  ELSE IF Gt(row.PreviousClaims, Zero) THEN 1
                  ELSE 0
      health   == IF Lt(row.HealthScore, FromInt(20)) THEN 2
                  ELSE IF Lt(row.HealthScore, FromInt(40)) THEN 1
                  ELSE 0
      credit   == IF Lt(row.CreditScore, FromInt(500)) THEN 2
                  ELSE IF Lt(row.CreditScore, FromInt(650)) THEN 1
                  ELSE 0
      smoking  == IF row.SmokingStatus = "Yes" THEN 2 ELSE 0
      exercise == IF row.ExerciseFrequency = "Rarely" THEN 1 ELSE 0
      score    == 0 + age + claims + health + credit + smoking + exercise
  IN IF score <= 2 THEN "Low"
     ELSE IF score <= 4 THEN "Medium"
     ELSE IF score <= 6 THEN "High"
     ELSE "Very High"

\* InsuranceAnalytics._calculate_risk_category, one iteration of the row
\* loop: the score and the category appended for it
InsuranceAnalytics_calculate_risk_category(row) ==
  LET age      == IF Lt(row.Age, FromInt(25)) \/ Gt(row.Age, FromInt(65))
                    THEN 2
                  ELSE IF Le(FromInt(25), row.Age) /\ Le(row.Age, FromInt(35))
                    THEN 1
                  ELSE 0
      claims   == IF Gt(row.PreviousClaims, FromInt(2)) THEN 3
                  ELSE IF Gt(row.PreviousClaims, Zero) THEN 1
                  ELSE 0
      health   == IF Lt(row.HealthScore, FromInt(20)) THEN 2
                  ELSE IF Lt(row.HealthScore, FromInt(40)) THEN 1
                  ELSE 0
      credit   == IF Lt(row.CreditScore, FromInt(500)) THEN 2
                  ELSE IF Lt(row.CreditScore, FromInt(650)) THEN 1
                  ELSE 0
      smoking  == IF row.SmokingStatus = "Yes" THEN 2 ELSE 0
      exercise == IF row.ExerciseFrequency = "Rarely" THEN 1 ELSE 0
      score    == 0 + age + claims + health + credit + smoking + exercise
  IN IF score <= 2 THEN "Low"
     ELSE IF score <= 4 THEN "Medium"
     ELSE IF score <= 6 THEN "High"
     ELSE "Very High"

\* ------------------------------------------------------------------------
\* ExcelAutomation._create_reserve_monitoring_sheet
\* ------------------------------------------------------------------------

\* the row of the sheet's frame with Required Reserves at a quarter of the
\* premiums (0.25 for 0.15)
reserve_monitoring_sheet_row_quarter(category, group) ==
  LET TotalPremiums == Round2(ColSum(group, "PremiumAmount"))
      TotalClaims   == Round2(ColSum(group, "PreviousClaims"))
      Required      == Mul(TotalPremiums, Num(0, 250000))
      ActualClaims  == Mul(TotalClaims, FromInt(1000))
  IN [RiskCategory          |-> category,
      TotalPremiums         |-> TotalPremiums,
      TotalClaims           |-> TotalClaims,
      RequiredReserves      |-> Required,
      ActualClaims          |-> ActualClaims,
      ReserveSurplusDeficit |-> Sub(Required, ActualClaims),
      ReserveRatio          |-> Div(Required, ActualClaims)]

\* one row of the frame the sheet is written from: the rounded sums of the
\* group and the columns derived from them (the two averages of the frame
\* have no counterpart in ReserveMonitoring and are left out)
reserve_monitoring_sheet_row(category, group) ==
  LET TotalPremiums == Round2(ColSum(group, "PremiumAmount"))
      TotalClaims   == Round2(ColSum(group, "PreviousClaims"))
      Required      == Mul(TotalPremiums, Num(0, 150000))
      ActualClaims  == Mul(TotalClaims, FromInt(1000))
  IN [RiskCategory          |-> category,
      TotalPremiums         |-> TotalPremiums,
      TotalClaims           |-> TotalClaims,
      RequiredReserves      |-> Required,
      ActualClaims          |-> ActualClaims,
      ReserveSurplusDeficit |-> Sub(Required, ActualClaims),
      ReserveRatio          |-> Div(Required, ActualClaims)]

\* f"${x:,.2f}": the amount a cell shows, x rounded to two decimals
Format2f(x) == Round2(x)

\* the cells written for one row of the frame: the amounts are formatted,
\* the category and the claim total are written as they are
reserve_monitoring_sheet_cells(row) ==
  [RiskCategory          |-> row.RiskCategory,
   TotalPremiums         |-> Format2f(row.TotalPremiums),
   TotalClaims           |-> row.TotalClaims,
   RequiredReserves      |-> Format2f(row.RequiredReserves),
   ActualClaims          |-> Format2f(row.ActualClaims),
   ReserveSurplusDeficit |-> Format2f(row.ReserveSurplusDeficit)]

\* df.groupby('Risk Category') of the sheet: one row of the frame for each
\* category that occurs
create_reserve_monitoring_sheet(table) ==
  LET keys == {r.RiskCategory : r \in DOMAIN table}
  IN [c \in keys |->
        reserve_monitoring_sheet_row(c, GroupOf(table, "RiskCategory", c))]

\* ------------------------------------------------------------------------
\* Input files
\* ------------------------------------------------------------------------

\* one line of the CSV file, before any imputation
Row(age, claims, health, credit, smoking, exercise, premium) ==
  [Age               |-> age,
   PreviousClaims    |-> claims,
   HealthScore       |-> health,
   CreditScore       |-> credit,
   SmokingStatus     |-> smoking,
   ExerciseFrequency |-> exercise,
   PremiumAmount     |-> premium]

\* the policies a portfolio is made of
Policies ==
  { Row(FromInt(40), FromInt(2), FromInt(50), FromInt(700), "No", "Daily",
        FromInt(5000)),
    Row(FromInt(40), FromInt(300), FromInt(50), FromInt(700), "No", "Daily",
        FromInt(1000000)),
    Row(FromInt(70), FromInt(3), FromInt(50), FromInt(700), "Yes", "Daily",
        Num(1250, 4000)),
    Row(FromInt(30), Zero, FromInt(10), FromInt(400), "No", "Rarely",
        NaN),
    Row(NaN, NaN, FromInt(50), FromInt(700), "No", "Daily",
        Num(0, 6000)),
    Row(FromInt(41), One, NaN, NaN, "No", "Daily",
        Zero),
    Row(FromInt(40), FromInt(0 - 1), FromInt(50), FromInt(700), "Yes", "Rarely",
        FromInt(5000)),
    Row(FromInt(70), FromInt(0 - 1), FromInt(50), FromInt(700), "Yes", "Rarely",
        FromInt(0 - 100000)) }

\* how many times a portfolio holds the same policy
Copies == {1, 20}

\* the most distinct policies in a portfolio
MaxKinds == 3

Portfolios ==
  UNION { [kinds -> Copies] :
            kinds \in {K \in SUBSET Policies : Cardinality(K) <= MaxKinds} }

\* files of one policy, over the values around every threshold of the score
Ages == {NaN, FromInt(24), FromInt(25), FromInt(35), Num(35, 500000),
         FromInt(36), FromInt(65), FromInt(66)}

ClaimCounts == {NaN, Zero, One, FromInt(2), FromInt(3)}

HealthScores == {FromInt(19), FromInt(20), FromInt(39), FromInt(40)}

CreditScores == {FromInt(499), FromInt(500), FromInt(649), FromInt(650)}

Premiums == {NaN, Zero, FromInt(2500), FromInt(100000)}

SinglePolicyFiles ==
  { [r \in {Row(a, c, h, s, sm, ex, FromInt(2500))} |-> 1] :
      a \in Ages, c \in ClaimCounts, h \in HealthScores, s \in CreditScores,
      sm \in {"Yes", "No"}, ex \in {"Rarely", "Daily"} }
    \cup { [r \in {Row(FromInt(40), c, FromInt(50), FromInt(700), "No", "Daily",
                       p)} |-> 1] :
             c \in ClaimCounts, p \in Premiums }

Files == Portfolios \cup SinglePolicyFiles

\* one line of the CSV file PowerBIDataPrep reads
PowerBIRow(age, income, claims, health, credit, smoking, exercise, premium, policy_type) ==
  [Age               |-> age,
   AnnualIncome      |-> income,
   PreviousClaims    |-> claims,
   HealthScore       |-> health,
   CreditScore       |-> credit,
   SmokingStatus     |-> smoking,
   ExerciseFrequency |-> exercise,
   PremiumAmount     |-> premium,
   PolicyType        |-> policy_type]

\* the policies of the files of PowerBIDataPrep; every income lies in a bin
PowerBIPolicies ==
  { PowerBIRow(FromInt(40), FromInt(50000), Zero, FromInt(50), FromInt(700),
               "No", "Daily", FromInt(5000), "Health"),
    PowerBIRow(FromInt(70), FromInt(250000), FromInt(3), FromInt(50),
               FromInt(700), "Yes", "Daily", FromInt(2000), "Auto"),
    PowerBIRow(FromInt(30), FromInt(80000), One, FromInt(30), FromInt(600),
               "No", "Rarely", NaN, "Health"),
    PowerBIRow(NaN, FromInt(30000), Zero, FromInt(50), FromInt(700),
               "No", "Daily", FromInt(1000), "Life") }

PowerBIFiles ==
  UNION { [kinds -> Copies] :
            kinds \in {K \in SUBSET PowerBIPolicies :
                         Cardinality(K) <= MaxKinds} }

\* the columns of a complete file
AllColumns ==
  {"Age", "PreviousClaims", "HealthScore", "CreditScore", "SmokingStatus",
   "ExerciseFrequency", "PremiumAmount"}

\* the headers of the files that lack one column
DefectiveHeaders == { AllColumns \ {c} : c \in AllColumns }

\* the rows of a file whose header is h
Project(b, h) ==
  LET proj(r) == [c \in h |-> r[c]]
      image   == { proj(r) : r \in DOMAIN b }
  IN [q \in image |-> Len_({r \in DOMAIN b : proj(r) = q}, b)]

\* the empty file and the files of one policy, for the defective headers
SmallPortfolios == { b \in Portfolios : Cardinality(DOMAIN b) <= 1 }

\* the files at data_path, each with its header
Inputs ==
  { <<b, AllColumns>> : b \in Files }
    \cup { <<Project(b, h), h>> : b \in SmallPortfolios, h \in DefectiveHeaders }

\* ------------------------------------------------------------------------
\* The ReserveMonitoring object
\* ------------------------------------------------------------------------

VARIABLES
  file,                 \* the rows of the CSV file at data_path
  header,               \* the columns of the CSV file
  df,                   \* self.df
  df_columns,           \* the columns of self.df
  reserve_analysis,     \* self.reserve_analysis
  stress_test_results,  \* self.stress_test_results
  capital_ratios,       \* what calculate_capital_adequacy_ratio returned last
  recommendations,      \* what generate_reserve_recommendations returned last
  exported,             \* the files under output_path
  load_progress,        \* the statements the last load_and_prepare_data ran
  reads,                \* the kinds of table the computations have read
  raised,               \* the exception of the last call, "" when it returned
  unwritable,           \* the files under output_path that cannot be written
  powerbi_file,         \* PowerBIDataPrep: the rows of the file at data_path
  powerbi_df,           \* PowerBIDataPrep: self.df
  powerbi_data,         \* PowerBIDataPrep: self.powerbi_data
  summary_tables,       \* what create_summary_tables returned last
  observed              \* whether the installed pandas groups a categorical
                        \* key by its observed categories only (the default
                        \* of observed: False before pandas 3, True from it)

reserve_vars ==
  <<file, header, df, df_columns, reserve_analysis, stress_test_results,
    capital_ratios, recommendations, exported, load_progress, reads, raised,
    unwritable>>

powerbi_vars ==
  <<powerbi_file, powerbi_df, powerbi_data, summary_tables, observed>>

vars == <<reserve_vars, powerbi_vars>>

\* the statements of load_and_prepare_data, each with the columns of the
\* file it looks up
LoadSteps ==
  << [step |-> "fillna Age",             needs |-> {"Age"}],
     [step |-> "fillna Health Score",    needs |-> {"HealthScore"}],
     [step |-> "fillna Previous Claims", needs |-> {"PreviousClaims"}],
     [step |-> "fillna Credit Score",    needs |-> {"CreditScore"}],
     [step |-> "Risk Score",
      needs |-> {"Age", "PreviousClaims", "HealthScore", "CreditScore",
                 "SmokingStatus", "ExerciseFrequency"}],
     [step |-> "Risk Category",          needs |-> {}],
     [step |-> "Loss Ratio",             needs |-> {"PreviousClaims",
                                                    "PremiumAmount"}] >>

\* the columns the statements add to the table
EnrichedColumns(h) == h \cup {"RiskScore", "RiskCategory", "LossRatio"}

\* whether statement n raises KeyError: it looks up a column the file does
\* not have (_calculate_risk_score looks its columns up row by row, so not
\* at all in a table without rows)
Fails(h, rows, n) ==
  /\ ~(LoadSteps[n].needs \subseteq h)
  /\ (LoadSteps[n].step = "Risk Score" => rows # << >>)

\* the number of statements that run to their end
Completed(h, rows) ==
  LET failing == { n \in 1..Len(LoadSteps) : Fails(h, rows, n) }
  IN IF failing = {} THEN Len(LoadSteps)
     ELSE (CHOOSE n \in failing : \A m \in failing : n <= m) - 1

\* the kind of table self.df holds
Kind(columns) == IF "RiskCategory" \in columns THEN "enriched" ELSE "raw"

\* ReserveMonitoring.__init__
ReserveMonitoring_init ==
  /\ df = None
  /\ df_columns = {}
  /\ reserve_analysis = None
  /\ stress_test_results = None
  /\ capital_ratios = None
  /\ recommendations = None
  /\ exported = None
  /\ load_progress = << >>
  /\ reads = {}
  /\ raised = ""

\* PowerBIDataPrep.__init__
PowerBIDataPrep_init ==
  /\ powerbi_df = None
  /\ powerbi_data = None
  /\ summary_tables = None

\* a ReserveMonitoring object on any of the files, which stays as it is and
\* whose output files can all be written; the PowerBIDataPrep object stays
\* as constructed, on the empty file
Init ==
  /\ \E input \in Inputs : file = input[1] /\ header = input[2]
  /\ unwritable = {}
  /\ ReserveMonitoring_init
  /\ powerbi_file = << >>
  /\ observed = FALSE
  /\ PowerBIDataPrep_init

\* load_and_prepare_data raises KeyError before its last statement
LoadFails == Completed(header, file) < Len(LoadSteps)

\* self.df when load_and_prepare_data ends or raises: the raw table from
\* the first statement on, the enriched table once the last one has run
LoadedDf == IF LoadFails THEN Some(file) ELSE Some(PrepareData(file))

LoadedColumns ==
  IF LoadFails THEN header ELSE EnrichedColumns(header)

LoadedProgress ==
  <<"read_csv">>
    \o [i \in 1..Completed(header, file) |-> LoadSteps[i].step]
    \o (IF LoadFails THEN << >> ELSE <<"store">>)

load_and_prepare_data ==
  /\ df' = LoadedDf
  /\ df_columns' = LoadedColumns
  /\ load_progress' = LoadedProgress
  /\ raised' = IF LoadFails THEN "KeyError" ELSE ""
  /\ UNCHANGED <<powerbi_vars, unwritable, file, header, reserve_analysis, stress_test_results,
                 capital_ratios, recommendations, exported, reads>>

\* the guard that drops the rows of a table it finds loaded
TableDf_dropping == IF df = None THEN LoadedDf ELSE Some(<< >>)

\* self.df after the guard "if self.df is None: self.load_and_prepare_data()"
TableDf == IF df = None THEN LoadedDf ELSE df

TableColumns == IF df = None THEN LoadedColumns ELSE df_columns

ProgressAfterGuard == IF df = None THEN LoadedProgress ELSE load_progress

\* the load called by the guard raises
GuardFails == df = None /\ LoadFails

\* the table behind the guard has the columns the computations look up
CanCompute == ~GuardFails /\ Kind(TableColumns) = "enriched"

\* the tables a computation behind the guard has read
ReadsAfterGuard ==
  IF GuardFails THEN reads ELSE reads \cup {Kind(TableColumns)}

calculate_reserve_requirements ==
  /\ df' = TableDf
  /\ df_columns' = TableColumns
  /\ load_progress' = ProgressAfterGuard
  /\ reads' = ReadsAfterGuard
  /\ raised' = IF CanCompute THEN "" ELSE "KeyError"
  /\ reserve_analysis' =
       IF CanCompute THEN Some(ReserveTable(Val(df'))) ELSE reserve_analysis
  /\ UNCHANGED <<powerbi_vars, unwritable, file, header, stress_test_results, capital_ratios,
                 recommendations, exported>>

perform_stress_testing ==
  /\ df' = TableDf
  /\ df_columns' = TableColumns
  /\ load_progress' = ProgressAfterGuard
  /\ reads' = ReadsAfterGuard
  /\ raised' = IF CanCompute THEN "" ELSE "KeyError"
  /\ stress_test_results' =
       IF CanCompute THEN Some(StressTable(Val(df'))) ELSE stress_test_results
  /\ UNCHANGED <<powerbi_vars, unwritable, file, header, reserve_analysis, capital_ratios,
                 recommendations, exported>>

\* calculate_capital_adequacy_ratio, behind the guard
\* "if self.reserve_analysis is None: self.calculate_reserve_requirements()"
calculate_capital_adequacy_ratio ==
  IF reserve_analysis # None
  THEN /\ capital_ratios' = Some(CapitalRatios(Val(reserve_analysis)))
       /\ raised' = ""
       /\ UNCHANGED <<powerbi_vars, unwritable, file, header, df, df_columns, load_progress, reads,
                      reserve_analysis, stress_test_results, recommendations,
                      exported>>
  ELSE /\ df' = TableDf
       /\ df_columns' = TableColumns
       /\ load_progress' = ProgressAfterGuard
       /\ reads' = ReadsAfterGuard
       /\ raised' = IF CanCompute THEN "" ELSE "KeyError"
       /\ reserve_analysis' =
            IF CanCompute THEN Some(ReserveTable(Val(df'))) ELSE None
       /\ capital_ratios' =
            IF CanCompute THEN Some(CapitalRatios(Val(reserve_analysis')))
            ELSE capital_ratios
       /\ UNCHANGED <<powerbi_vars, unwritable, file, header, stress_test_results, recommendations,
                      exported>>

\* generate_reserve_recommendations, behind the same guard
generate_reserve_recommendations ==
  IF reserve_analysis # None
  THEN /\ recommendations' = Some(Recommendations(Val(reserve_analysis)))
       /\ raised' = ""
       /\ UNCHANGED <<powerbi_vars, unwritable, file, header, df, df_columns, load_progress, reads,
                      reserve_analysis, stress_test_results, capital_ratios,
                      exported>>
  ELSE /\ df' = TableDf
       /\ df_columns' = TableColumns
       /\ load_progress' = ProgressAfterGuard
       /\ reads' = ReadsAfterGuard
       /\ raised' = IF CanCompute THEN "" ELSE "KeyError"
       /\ reserve_analysis' =
            IF CanCompute THEN Some(ReserveTable(Val(df'))) ELSE None
       /\ recommendations' =
            IF CanCompute THEN Some(Recommendations(Val(reserve_analysis')))
            ELSE recommendations
       /\ UNCHANGED <<powerbi_vars, unwritable, file, header, stress_test_results, capital_ratios,
                      exported>>

\* the files export_reserve_analysis writes, in the order of its to_csv
\* calls
ExportFiles ==
  <<"reserve_analysis", "stress_test_results", "reserve_recommendations",
    "capital_adequacy_ratios">>

\* the to_csv call that raises OSError and ends the export: the first
\* whose file cannot be written, 0 when every file can
FailedWrite ==
  LET failing == { i \in 1..Len(ExportFiles) : ExportFiles[i] \in unwritable }
  IN IF failing = {} THEN 0
     ELSE CHOOSE i \in failing : \A j \in failing : i <= j

\* the files one export writes: all of them, or those before the call that
\* raises
Written ==
  IF FailedWrite = 0 THEN { ExportFiles[i] : i \in 1..Len(ExportFiles) }
  ELSE { ExportFiles[i] : i \in 1..(FailedWrite - 1) }

\* export_reserve_analysis: the two guards, then the four files, each
\* written as soon as its table is there.  to_csv writes every float with
\* the digits that read back as the same float, so a file is kept as the
\* table written.
export_reserve_analysis ==
  IF reserve_analysis # None /\ stress_test_results # None
  THEN /\ recommendations' =
            IF FailedWrite \in 1..2 THEN recommendations
            ELSE Some(Recommendations(Val(reserve_analysis)))
       /\ capital_ratios' =
            IF FailedWrite \in 1..3 THEN capital_ratios
            ELSE Some(CapitalRatios(Val(reserve_analysis)))
       /\ exported' =
            [n \in DOMAIN exported \cup Written |->
               IF n \notin Written THEN exported[n]
               ELSE CASE n = "reserve_analysis" -> Val(reserve_analysis)
                      [] n = "stress_test_results" -> Val(stress_test_results)
                      [] n = "reserve_recommendations" -> Val(recommendations')
                      [] OTHER -> Val(capital_ratios')]
       /\ raised' = IF FailedWrite = 0 THEN "" ELSE "OSError"
       /\ UNCHANGED <<powerbi_vars, unwritable, file, header, df, df_columns, load_progress, reads,
                      reserve_analysis, stress_test_results>>
  ELSE /\ df' = TableDf
       /\ df_columns' = TableColumns
       /\ load_progress' = ProgressAfterGuard
       /\ reads' = ReadsAfterGuard
       /\ raised' = IF ~CanCompute THEN "KeyError"
                    ELSE IF FailedWrite = 0 THEN "" ELSE "OSError"
       /\ reserve_analysis' =
            IF reserve_analysis = None /\ CanCompute
            THEN Some(ReserveTable(Val(df'))) ELSE reserve_analysis
       /\ stress_test_results' =
            IF stress_test_results = None /\ CanCompute
            THEN Some(StressTable(Val(df'))) ELSE stress_test_results
       /\ recommendations' =
            IF CanCompute /\ FailedWrite \notin 1..2
            THEN Some(Recommendations(Val(reserve_analysis')))
            ELSE recommendations
       /\ capital_ratios' =
            IF CanCompute /\ FailedWrite \notin 1..3
            THEN Some(CapitalRatios(Val(reserve_analysis')))
            ELSE capital_ratios
       /\ exported' =
            IF ~CanCompute THEN exported
            ELSE [n \in DOMAIN exported \cup Written |->
                    IF n \notin Written THEN exported[n]
                    ELSE CASE n = "reserve_analysis" -> Val(reserve_analysis')
                           [] n = "stress_test_results" ->
                                Val(stress_test_results')
                           [] n = "reserve_recommendations" ->
                                Val(recommendations')
                           [] OTHER -> Val(capital_ratios')]
       /\ UNCHANGED <<powerbi_vars, unwritable, file, header>>

Next ==
  \/ load_and_prepare_data
  \/ calculate_reserve_requirements
  \/ perform_stress_testing
  \/ calculate_capital_adequacy_ratio
  \/ generate_reserve_recommendations
  \/ export_reserve_analysis

Spec == Init /\ [][Next]_vars

\* ------------------------------------------------------------------------
\* The ReserveMonitoring object in an environment that acts: the file at
\* data_path is replaced between two calls, and one of the output files
\* may be unwritable
\* ------------------------------------------------------------------------

\* the policies of the files that replace each other
ReloadPolicies ==
  { Row(FromInt(40), FromInt(2), FromInt(50), FromInt(700), "No", "Daily",
        FromInt(5000)),
    Row(FromInt(70), FromInt(3), FromInt(50), FromInt(700), "Yes", "Daily",
        Num(1250, 4000)) }

\* the files that replace each other: one or both of the policies
ReloadFiles ==
  { b \in Portfolios :
      /\ DOMAIN b # {}
      /\ DOMAIN b \subseteq ReloadPolicies
      /\ \A r \in DOMAIN b : b[r] = 1 }

InitEnvironment ==
  /\ file \in ReloadFiles
  /\ header = AllColumns
  /\ unwritable \in {{}} \cup { {ExportFiles[i]} : i \in 1..Len(ExportFiles) }
  /\ ReserveMonitoring_init
  /\ powerbi_file = << >>
  /\ observed = FALSE
  /\ PowerBIDataPrep_init

\* another file is put at data_path
replace_data_file ==
  /\ file' \in ReloadFiles \ {file}
  /\ UNCHANGED <<powerbi_vars, unwritable, header, df, df_columns,
                 reserve_analysis, stress_test_results, capital_ratios,
                 recommendations, exported, load_progress, reads, raised>>

NextEnvironment ==
  \/ Next
  \/ replace_data_file

SpecEnvironment == InitEnvironment /\ [][NextEnvironment]_vars

\* ------------------------------------------------------------------------
\* The PowerBIDataPrep object
\* ------------------------------------------------------------------------

\* a PowerBIDataPrep object on any of its files, under either pandas; the
\* ReserveMonitoring object stays as constructed, on the empty file
InitPowerBI ==
  /\ powerbi_file \in PowerBIFiles
  /\ observed \in BOOLEAN
  /\ PowerBIDataPrep_init
  /\ file = << >>
  /\ header = AllColumns
  /\ unwritable = {}
  /\ ReserveMonitoring_init

\* PowerBIDataPrep.load_and_prepare_data
PowerBIDataPrep_load_and_prepare_data ==
  /\ powerbi_df' = Some(powerbi_file)
  /\ powerbi_data' = Some(PowerBIData(powerbi_file))
  /\ UNCHANGED <<reserve_vars, powerbi_file, summary_tables, observed>>

\* PowerBIDataPrep.create_summary_tables, behind the guard
\* "if self.powerbi_data is None: self.load_and_prepare_data()"
create_summary_tables ==
  /\ powerbi_df' =
       IF powerbi_data = None THEN Some(powerbi_file) ELSE powerbi_df
  /\ powerbi_data' =
       IF powerbi_data = None THEN Some(PowerBIData(powerbi_file))
       ELSE powerbi_data
  /\ summary_tables' =
       Some([policy_summary    |-> PolicySummary(Val(powerbi_data')),
             customer_segments |-> CustomerSegments(Val(powerbi_data'),
                                                    observed)])
  /\ UNCHANGED <<reserve_vars, powerbi_file, observed>>

NextPowerBI ==
  \/ PowerBIDataPrep_load_and_prepare_data
  \/ create_summary_tables

SpecPowerBI == InitPowerBI /\ [][NextPowerBI]_vars

\* ------------------------------------------------------------------------
\* Properties
\* ------------------------------------------------------------------------

\* self.df holds the enriched table
Loaded == df # None /\ Kind(df_columns) = "enriched"

Rows == DOMAIN Val(df)

\* the six components of the score, each on its own
AgePoints(r) ==
  IF Lt(r.Age, FromInt(25)) \/ Gt(r.Age, FromInt(65)) THEN 2
  ELSE IF Ge(r.Age, FromInt(25)) /\ Le(r.Age, FromInt(35)) THEN 1 ELSE 0

ClaimsPoints(r) ==
  IF Gt(r.PreviousClaims, FromInt(2)) THEN 3
  ELSE IF Gt(r.PreviousClaims, Zero) /\ Le(r.PreviousClaims, FromInt(2)) THEN 1
  ELSE 0

HealthPoints(r) ==
  IF Lt(r.HealthScore, FromInt(20)) THEN 2
  ELSE IF Ge(r.HealthScore, FromInt(20)) /\ Lt(r.HealthScore, FromInt(40)) THEN 1
  ELSE 0

CreditPoints(r) ==
  IF Lt(r.CreditScore, FromInt(500)) THEN 2
  ELSE IF Ge(r.CreditScore, FromInt(500)) /\ Lt(r.CreditScore, FromInt(650)) THEN 1
  ELSE 0

SmokingPoints(r) == IF r.SmokingStatus = "Yes" THEN 2 ELSE 0

ExercisePoints(r) == IF r.ExerciseFrequency = "Rarely" THEN 1 ELSE 0

\* C1: the risk score of every policy record is the sum of the six
\* independent components for age, previous claims, health score, credit
\* score, smoking status and exercise frequency.
C1_ScoreIsSumOfComponents ==
  Loaded =>
    \A r \in Rows :
      r.RiskScore = AgePoints(r) + ClaimsPoints(r) + HealthPoints(r)
                    + CreditPoints(r) + SmokingPoints(r) + ExercisePoints(r)

\* a record scored on every component, with the middle band of age,
\* health and credit taken at its boundary
C1_Witness ==
  /\ Loaded
  /\ \E r \in Rows :
       /\ r.Age = FromInt(35) /\ AgePoints(r) = 1
       /\ ClaimsPoints(r) = 3
       /\ r.HealthScore = FromInt(39) /\ HealthPoints(r) = 1
       /\ r.CreditScore = FromInt(500) /\ CreditPoints(r) = 1
       /\ SmokingPoints(r) = 2
       /\ ExercisePoints(r) = 1
       /\ r.RiskScore = 9

CategoryRank(c) ==
  CASE c = "Low" -> 1 [] c = "Medium" -> 2 [] c = "High" -> 3
    [] c = "Very High" -> 4 [] OTHER -> 0

\* C2: the category is Low for a score <= 2, Medium for 2 < score <= 4,
\* High for 4 < score <= 6 and Very High above 6; it is one of these four
\* values and never decreases when the score increases.
C2_CategoryIsStepFunction ==
  Loaded =>
    /\ \A r \in Rows :
         /\ r.RiskCategory \in {"Low", "Medium", "High", "Very High"}
         /\ (r.RiskScore <= 2) <=> (r.RiskCategory = "Low")
         /\ (2 < r.RiskScore /\ r.RiskScore <= 4) <=> (r.RiskCategory = "Medium")
         /\ (4 < r.RiskScore /\ r.RiskScore <= 6) <=> (r.RiskCategory = "High")
         /\ (r.RiskScore > 6) <=> (r.RiskCategory = "Very High")
    /\ \A r1, r2 \in Rows :
         r1.RiskScore <= r2.RiskScore
           => CategoryRank(r1.RiskCategory) <= CategoryRank(r2.RiskCategory)

\* a table with a Low policy and a Very High policy
C2_Witness ==
  /\ Loaded
  /\ \E r1, r2 \in Rows :
       /\ r1.RiskScore < r2.RiskScore
       /\ r1.RiskCategory = "Low"
       /\ r2.RiskCategory = "Very High"

\* C3: the risk score is a non-negative integer that is at most 13.
C3_ScoreWithinBounds ==
  Loaded => \A r \in Rows : r.RiskScore \in 0..13

\* a record with the highest score of every component
C3_Witness ==
  /\ Loaded
  /\ \E r \in Rows :
       /\ AgePoints(r) = 2 /\ ClaimsPoints(r) = 3 /\ HealthPoints(r) = 2
       /\ CreditPoints(r) = 2 /\ SmokingPoints(r) = 2 /\ ExercisePoints(r) = 1
       /\ r.RiskScore = 12

Analysed == reserve_analysis # None

ReserveRows == {Val(reserve_analysis)[c] : c \in DOMAIN Val(reserve_analysis)}

Candidates(row) ==
  {row.PremiumBasedReserves, row.ClaimsBasedReserves,
   row.RiskAdjustedReserves, row.IBNRReserves}

\* C4: in every row of the reserve table, Total Required Reserves is the
\* maximum of the four candidate reserves: at least each of them and equal
\* to one of them.
C4_RequiredIsMaxOfCandidates ==
  Analysed =>
    \A row \in ReserveRows :
      /\ \A x \in Candidates(row) : Ge(row.TotalRequiredReserves, x)
      /\ row.TotalRequiredReserves \in Candidates(row)

\* a row whose four candidates are all different and positive, so that the
\* maximum differs from their sum and from their mean
C4_Witness ==
  /\ Analysed
  /\ \E row \in ReserveRows :
       /\ Cardinality(Candidates(row)) = 4
       /\ \A x \in Candidates(row) : Gt(x, Zero)

\* the multiplier the statement gives for each category
StatedMultiplier(c) ==
  CASE c = "Low"       -> <<10, 100>>
    [] c = "Medium"    -> <<15, 100>>
    [] c = "High"      -> <<25, 100>>
    [] c = "Very High" -> <<35, 100>>

\* C5: with P the Total Premiums and C the Total Claims of a row of the
\* reserve table, premium_based = 0.15 P, claims_based = 3 (1000 C),
\* risk_adjusted = m P with m = 0.10, 0.15, 0.25, 0.35 for Low, Medium,
\* High, Very High, ibnr = 0.05 P, exposure = 1000 C, adequacy = required -
\* exposure and ratio = required / exposure; a Low row with P = 100,000 and
\* C = 40 has 15,000 / 120,000 / 10,000 / 5,000, required 120,000, exposure
\* 40,000, adequacy 80,000 and ratio 3.
C5_ReserveFormulas ==
  Analysed =>
    \A row \in ReserveRows :
      LET P == row.TotalPremiums
          C == row.TotalClaims
          m == StatedMultiplier(row.RiskCategory)
      IN /\ row.PremiumBasedReserves = Scale(P, 15, 100)
         /\ row.ClaimsBasedReserves = Scale(Scale(C, 1000, 1), 3, 1)
         /\ row.RiskAdjustedReserves = Scale(P, m[1], m[2])
         /\ row.IBNRReserves = Scale(P, 5, 100)
         /\ row.ActualClaimsExposure = Scale(C, 1000, 1)
         /\ Add(row.ReserveAdequacy, row.ActualClaimsExposure)
              = row.TotalRequiredReserves
         /\ row.ActualClaimsExposure # Zero =>
              /\ row.ReserveRatio.k = "fin"
              /\ row.ReserveRatio.num = row.TotalRequiredReserves
              /\ row.ReserveRatio.den = row.ActualClaimsExposure
         /\ (row.RiskCategory = "Low" /\ P = FromInt(100000) /\ C = FromInt(40)) =>
              /\ row.PremiumBasedReserves = FromInt(15000)
              /\ row.ClaimsBasedReserves = FromInt(120000)
              /\ row.RiskAdjustedReserves = FromInt(10000)
              /\ row.IBNRReserves = FromInt(5000)
              /\ row.TotalRequiredReserves = FromInt(120000)
              /\ row.ActualClaimsExposure = FromInt(40000)
              /\ row.ReserveAdequacy = FromInt(80000)
              /\ row.ReserveRatio.k = "fin"
              /\ row.ReserveRatio.num = Scale(row.ReserveRatio.den, 3, 1)

\* the scenario of the statement together with a row of another category
C5_Witness ==
  /\ Analysed
  /\ \E row \in ReserveRows :
       /\ row.RiskCategory = "Low"
       /\ row.TotalPremiums = FromInt(100000)
       /\ row.TotalClaims = FromInt(40)
  /\ \E row \in ReserveRows :
       /\ row.RiskCategory = "Very High"
       /\ Gt(row.TotalPremiums, Zero)

IsZeroRatio(q) == q.k = "fin" /\ q.num = Zero /\ q.den # Zero

\* C6: a policy whose premium amount is zero or missing has loss ratio 0,
\* whatever its previous claims.
C6_ZeroOrMissingPremiumGivesZero ==
  Loaded =>
    \A r \in Rows :
      (IsNaN(r.PremiumAmount) \/ r.PremiumAmount = Zero)
        => IsZeroRatio(r.LossRatio)

\* C7: a policy with premium > 0 and previous claims >= 0 has loss ratio
\* (previous_claims * 1000) / premium, which is not negative; a policy
\* with no previous claim has loss ratio exactly 0.
C7_LossRatioFormula ==
  Loaded =>
    \A r \in Rows :
      /\ (Gt(r.PremiumAmount, Zero) /\ Ge(r.PreviousClaims, Zero)) =>
           /\ r.LossRatio.k = "fin"
           /\ r.LossRatio.num = Scale(r.PreviousClaims, 1000, 1)
           /\ r.LossRatio.den = r.PremiumAmount
           /\ Ge(r.LossRatio.num, Zero) /\ Gt(r.LossRatio.den, Zero)
      /\ r.PreviousClaims = Zero => IsZeroRatio(r.LossRatio)

\* a policy with claims and a positive premium, and policies without
\* claims whose premium is missing and positive
C7_Witness ==
  /\ Loaded
  /\ \E r \in Rows : Gt(r.PremiumAmount, Zero) /\ Gt(r.PreviousClaims, Zero)
  /\ \E r \in Rows : IsNaN(r.PremiumAmount) /\ r.PreviousClaims = Zero
  /\ \E r \in Rows : Gt(r.PremiumAmount, Zero) /\ r.PreviousClaims = Zero

Stressed == stress_test_results # None

StressRows == {Val(stress_test_results)[i] : i \in DOMAIN Val(stress_test_results)}

Tenths(n) == Scale(FromInt(n), 1, 10)

\* the catalog of the statement: name, claims multiplier, premium multiplier
StatedCatalog ==
  { <<"Base Case", Tenths(10), Tenths(10)>>,
    <<"Mild Stress", Tenths(12), Tenths(10)>>,
    <<"Moderate Stress", Tenths(15), Tenths(10)>>,
    <<"Severe Stress", Tenths(20), Tenths(10)>>,
    <<"Economic Downturn", Tenths(18), Tenths(9)>>,
    <<"Catastrophic Event", Tenths(30), Tenths(10)>> }

C9_StressFormulas ==
  (Stressed /\ Loaded) =>
    LET P == ColSum(Val(df), "PremiumAmount")
        C == ColSum(Val(df), "PreviousClaims")
    IN \A row \in StressRows :
         LET sp == Mul(P, row.PremiumMultiplier)
             sc == Mul(C, row.ClaimsMultiplier)
         IN /\ row.RequiredReserves = Scale(sp, 15, 100)
            /\ row.ActualClaimsExposure = Scale(sc, 1000, 1)
            /\ Add(row.CapitalAdequacy, row.ActualClaimsExposure)
                 = row.RequiredReserves
            /\ row.AdequacyStatus \in {"Adequate", "Inadequate"}
            /\ (row.AdequacyStatus = "Adequate")
                 <=> Ge(row.CapitalAdequacy, Zero)
            /\ (P = FromInt(1000000) /\ C = FromInt(300)
                  /\ row.Scenario = "Severe Stress") =>
                 /\ row.TotalClaims = FromInt(600)
                 /\ row.RequiredReserves = FromInt(150000)
                 /\ row.ActualClaimsExposure = FromInt(600000)
                 /\ row.CapitalAdequacy = FromInt(0 - 450000)
                 /\ row.AdequacyStatus = "Inadequate"

\* the scenario of the statement
C9_Witness ==
  /\ Stressed
  /\ Loaded
  /\ ColSum(Val(df), "PremiumAmount") = FromInt(1000000)
  /\ ColSum(Val(df), "PreviousClaims") = FromInt(300)
  /\ \E row \in StressRows :
       row.Scenario = "Severe Stress" /\ row.AdequacyStatus = "Inadequate"

\* the sum of a column of the reserve table
RECURSIVE SumReserve_(_, _)
SumReserve_(S, col) ==
  IF S = {} THEN Zero
  ELSE LET c == CHOOSE x \in S : TRUE
       IN Add(Val(reserve_analysis)[c][col], SumReserve_(S \ {c}, col))

SumReserve(col) == SumReserve_(DOMAIN Val(reserve_analysis), col)

\* C10: the Base Case row reproduces the reserve table: its Total
\* Premiums, Total Claims and Required Reserves are the sums over the risk
\* categories of Total Premiums, Total Claims and Premium Based Reserves.
C10_BaseCaseReproducesReserveTable ==
  (Analysed /\ Stressed) =>
    \A row \in StressRows :
      row.Scenario = "Base Case" =>
        /\ row.TotalPremiums = SumReserve("TotalPremiums")
        /\ row.TotalClaims = SumReserve("TotalClaims")
        /\ row.RequiredReserves = SumReserve("PremiumBasedReserves")


Recommended == recommendations # None

\* the rows of the recommendation table for one risk category
RecommendationsFor(category) ==
  { i \in DOMAIN Val(recommendations) :
      Val(recommendations)[i].RiskCategory = category }

StatedIssue(row) ==
  IF Lt(row.ReserveAdequacy, Zero) THEN "Inadequate Reserves"
  ELSE IF RatioLt(row.ReserveRatio, 6, 5) THEN "Low Reserve Buffer"
  ELSE "Adequate Reserves"

StatedPriority(row) ==
  IF Lt(row.ReserveAdequacy, Zero)
  THEN IF RatioLt(row.ReserveRatio, 1, 2) THEN "High" ELSE "Medium"
  ELSE IF RatioLt(row.ReserveRatio, 6, 5) THEN "Medium"
  ELSE "Low"

\* C11: generate_reserve_recommendations emits exactly one recommendation
\* for each row of the reserve table, fixed by that row's adequacy and
\* reserve ratio alone: Inadequate Reserves when the adequacy is negative
\* (priority High below a ratio of 0.5, Medium otherwise), else Low Reserve
\* Buffer with priority Medium when the ratio is below 1.2, else Adequate
\* Reserves with priority Low.
C11_OneRecommendationPerRow ==
  Recommended =>
    \A c \in DOMAIN Val(reserve_analysis) :
      /\ Cardinality(RecommendationsFor(c)) = 1
      /\ \A i \in RecommendationsFor(c) :
           /\ Val(recommendations)[i].Issue
                = StatedIssue(Val(reserve_analysis)[c])
           /\ Val(recommendations)[i].Priority
                = StatedPriority(Val(reserve_analysis)[c])

\* a recommendation table with an inadequate category, a category with a
\* low buffer and an adequate category
C11_Witness ==
  /\ Recommended
  /\ \E i, j, k \in DOMAIN Val(recommendations) :
       /\ Val(recommendations)[i].Issue = "Inadequate Reserves"
       /\ Val(recommendations)[i].Priority = "Medium"
       /\ Val(recommendations)[j].Issue = "Low Reserve Buffer"
       /\ Val(recommendations)[j].Priority = "Medium"
       /\ Val(recommendations)[k].Issue = "Adequate Reserves"
       /\ Val(recommendations)[k].Priority = "Low"

\* C12: the recommendation table ends with one more row, for the risk
\* category Overall Portfolio with priority Critical, exactly when the
\* Reserve Adequacy of all category rows adds up to less than zero;
\* otherwise it has exactly one row for each risk category.
C12_OverallRowIffShortfall ==
  Recommended =>
    LET recs     == Val(recommendations)
        rows     == Cardinality(DOMAIN Val(reserve_analysis))
        overall  == { i \in DOMAIN recs :
                        recs[i].RiskCategory = "Overall Portfolio" }
        negative == Lt(SumReserve("ReserveAdequacy"), Zero)
    IN /\ negative <=> (overall # {})
       /\ negative =>
            /\ Len(recs) = rows + 1
            /\ overall = {Len(recs)}
            /\ recs[Len(recs)].Priority = "Critical"
       /\ ~negative => Len(recs) = rows

\* a portfolio whose adequacies add up to a shortfall although one of its
\* categories is adequate
C12_Witness ==
  /\ Recommended
  /\ Lt(SumReserve("ReserveAdequacy"), Zero)
  /\ \E i \in DOMAIN Val(recommendations) :
       Val(recommendations)[i].Issue = "Adequate Reserves"
  /\ Val(recommendations)[Len(Val(recommendations))].Priority = "Critical"

\* C13: a risk category whose actual exposure is 0 gets a reserve row
\* without a crash, and its reserve ratio is +infinity, also when the
\* premiums and the required reserves of the category are 0 as well.
C13_ZeroExposureGivesInfinity ==
  (Analysed /\ raised = "") =>
    \A row \in ReserveRows :
      row.ActualClaimsExposure = Zero => row.ReserveRatio = RatioInf

Rated == capital_ratios # None

\* C14: the Reserve Coverage Ratio is the required reserves over the
\* exposure and the Premium Coverage Ratio the required reserves over the
\* premiums, each of the sums over the reserve table, and a denominator of
\* zero is treated as the reserve ratio of a category treats it.
C14_CoverageRatiosShareGuard ==
  Rated =>
    LET required == SumReserve("TotalRequiredReserves")
        ratios   == Val(capital_ratios)
    IN /\ ratios.ReserveCoverageRatio
            = Div(required, SumReserve("ActualClaimsExposure"))
       /\ ratios.PremiumCoverageRatio
            = Div(required, SumReserve("TotalPremiums"))
       /\ \A row \in ReserveRows :
            (ReserveRows = {row} /\ row.ActualClaimsExposure = Zero)
              => ratios.ReserveCoverageRatio = row.ReserveRatio

RECURSIVE SumPolicyCount_(_)
SumPolicyCount_(S) ==
  IF S = {} THEN 0
  ELSE LET c == CHOOSE x \in S : TRUE
       IN Val(reserve_analysis)[c].PolicyCount + SumPolicyCount_(S \ {c})

\* C16: the policy counts of the rollup by risk category add up to the
\* number of rows of the enriched table and its total premiums add up to
\* the premium total of the portfolio, also when rows lack a premium.
C16_RollupConservesCountsAndPremiums ==
  (Analysed /\ Loaded) =>
    /\ SumPolicyCount_(DOMAIN Val(reserve_analysis)) = NumRows(Val(df))
    /\ SumReserve("TotalPremiums") = ColSum(Val(df), "PremiumAmount")

\* C17: for every portfolio the Loss Ratio and the Capital Ratio of every
\* stress scenario are finite numbers: perform_stress_testing raises no
\* division error and leaves neither NaN nor an infinity in its results.
C17_StressRatiosFinite ==
  Stressed =>
    /\ raised = ""
    /\ \A row \in StressRows :
         row.LossRatio.k = "fin" /\ row.CapitalRatio.k = "fin"

\* C18: when the file lacks a required column, load_and_prepare_data fails
\* before any computation: the call raises, no imputation, scoring or
\* derived-column statement has run and the object is as it was.
C18_MissingColumnFailsFirst ==
  (header # AllColumns /\ load_progress # << >>) =>
    /\ raised = "KeyError"
    /\ load_progress = <<"read_csv">>
    /\ df = None

\* C19: in whatever order the public operations are called on a fresh
\* object, a reserve or stress computation reads the table only once all
\* its rows are enriched.
C19_ComputationsReadEnrichedTable == reads \subseteq {"enriched"}

\* C20: once the table is enriched no stage changes it, no stage changes
\* the reserve table or the stress results an earlier stage produced, and
\* a repeated calculate_reserve_requirements or perform_stress_testing
\* yields the table it yielded before.
C20_StagesKeepEarlierOutputs ==
  [][ Loaded =>
        /\ df' = df
        /\ Analysed => reserve_analysis' = reserve_analysis
        /\ Stressed => stress_test_results' = stress_test_results ]_vars

\* every stage has run on a portfolio of several risk categories
C20_Witness ==
  /\ Loaded /\ Analysed /\ Stressed /\ Rated /\ Recommended
  /\ exported # None
  /\ Cardinality(DOMAIN Val(reserve_analysis)) >= 2
  /\ exported.reserve_analysis = Val(reserve_analysis)
  /\ exported.stress_test_results = Val(stress_test_results)

Summarised == summary_tables # None

\* C15: every group-by rollup has exactly the rows of the key combinations
\* that occur in its input: the reserve table one row for each risk
\* category of the enriched table, policy_summary one row for each pair of
\* Policy Type and Risk Category, customer_segments one row for each pair of
\* Income Group and Risk Category, and no row for a combination without a
\* record.
C15_RollupRowsAreObservedKeys ==
  /\ (Analysed /\ Loaded) =>
       DOMAIN Val(reserve_analysis)
         = { r.RiskCategory : r \in DOMAIN Val(df) }
  /\ Summarised =>
       /\ DOMAIN Val(summary_tables).policy_summary
            = { <<r.PolicyType, r.RiskCategory>> :
                  r \in DOMAIN Val(powerbi_data) }
       /\ DOMAIN Val(summary_tables).customer_segments
            = { <<r.IncomeGroup, r.RiskCategory>> :
                  r \in DOMAIN Val(powerbi_data) }

\* C21: for every policy record the four scoring implementations give the
\* same answer: the scores of ExcelAutomation and of PowerBIDataPrep are the
\* score of ReserveMonitoring, their categories are its category, and
\* InsuranceAnalytics._calculate_risk_category returns that category too.
C21_ScorersAgree ==
  Loaded =>
    \A r \in Rows :
      /\ ExcelAutomation_calculate_risk_score(r) = r.RiskScore
      /\ PowerBIDataPrep_calculate_risk_score(r) = r.RiskScore
      /\ ExcelAutomation_categorize_risk(
           ExcelAutomation_calculate_risk_score(r)) = r.RiskCategory
      /\ PowerBIDataPrep_categorize_risk(
           PowerBIDataPrep_calculate_risk_score(r)) = r.RiskCategory
      /\ InsuranceAnalytics_calculate_risk_category(r) = r.RiskCategory

\* a record without an age and with two previous claims, at the upper end
\* of the Medium band
C21_Witness ==
  /\ Loaded
  /\ \E r \in Rows :
       /\ IsNaN(r.Age)
       /\ r.PreviousClaims = FromInt(2)
       /\ r.RiskScore = 4
       /\ r.RiskCategory = "Medium"
       /\ InsuranceAnalytics_calculate_risk_category(r) = "Medium"

\* C22: a failure in a stage aborts the whole batch: once a stage of the
\* batch or of export_reserve_analysis has failed no later stage runs, and
\* the output directory never holds only a part of the four reserve
\* outputs (reserve_analysis, stress_test_results, reserve_recommendations,
\* capital_adequacy_ratios): it holds none of them or all of them.
C22_NoPartialOutputs ==
  DOMAIN exported \in { {}, { ExportFiles[i] : i \in 1..Len(ExportFiles) } }

\* every category of the reserve table has a claim total that is not
\* negative
ClaimsNotNegative == \A row \in ReserveRows : Ge(row.TotalClaims, Zero)

\* C23: in a risk category whose claim total is not negative the Reserve
\* Adequacy is never negative and, when the actual exposure is positive, the
\* Reserve Ratio is at least 3, because Total Required Reserves is at least
\* the claims-based candidate, three times the exposure; so the Overall
\* Adequacy of such a portfolio is never negative.
C23_NonNegativeClaimsAreCovered ==
  /\ Analysed =>
       \A row \in ReserveRows :
         Ge(row.TotalClaims, Zero) =>
           /\ row.ClaimsBasedReserves = Scale(row.ActualClaimsExposure, 3, 1)
           /\ Ge(row.TotalRequiredReserves, row.ClaimsBasedReserves)
           /\ Ge(row.ReserveAdequacy, Zero)
           /\ Gt(row.ActualClaimsExposure, Zero) =>
                /\ row.ReserveRatio.k = "fin"
                /\ ~RatioLt(row.ReserveRatio, 3, 1)
  /\ (Rated /\ ClaimsNotNegative) =>
       Ge(Val(capital_ratios).OverallAdequacy, Zero)

\* the capital ratios of a portfolio with claims, in which the premiums of
\* a category bind and its ratio is above 3
C23_Witness ==
  /\ Rated
  /\ ClaimsNotNegative
  /\ Gt(Val(capital_ratios).TotalActualExposure, Zero)
  /\ \E row \in ReserveRows :
       /\ Gt(row.ActualClaimsExposure, Zero)
       /\ row.TotalRequiredReserves = row.PremiumBasedReserves
       /\ ~RatioLt(row.ReserveRatio, 4, 1)

\* the claim count of every policy of the table is missing, zero or
\* positive
NoNegativeClaimCount ==
  \A r \in Rows : ~Lt(r.PreviousClaims, Zero)

\* C24: for a portfolio without a negative claim count every recommendation
\* of generate_reserve_recommendations has the issue Adequate Reserves and
\* the priority Low: neither Inadequate Reserves, nor Low Reserve Buffer,
\* nor the Critical row for the Overall Portfolio is emitted.
C24_OnlyAdequateRecommendations ==
  (Recommended /\ Loaded /\ NoNegativeClaimCount) =>
    /\ Len(Val(recommendations)) = Cardinality(DOMAIN Val(reserve_analysis))
    /\ \A i \in DOMAIN Val(recommendations) :
         /\ Val(recommendations)[i].Issue = "Adequate Reserves"
         /\ Val(recommendations)[i].Priority = "Low"
         /\ Val(recommendations)[i].RiskCategory # "Overall Portfolio"

\* the recommendations for a portfolio of three categories with claims,
\* one of them with the lowest ratio there is, 3
C24_Witness ==
  /\ Recommended /\ Loaded /\ NoNegativeClaimCount
  /\ Len(Val(recommendations)) >= 3
  /\ \E row \in ReserveRows :
       /\ Gt(row.ActualClaimsExposure, Zero)
       /\ row.TotalRequiredReserves = row.ClaimsBasedReserves
  /\ \E row \in ReserveRows : row.ActualClaimsExposure = Zero

\* C25: in every reachable state, also in the state a failed
\* load_and_prepare_data leaves behind, self.df is None or the fully
\* enriched table, so the guard "self.df is None" never lets a later call
\* skip the load and run on the raw table.
C25_DfIsNoneOrEnriched ==
  df = None \/ Kind(df_columns) = "enriched"

\* C26: after any sequence of operations, also when load_and_prepare_data
\* is repeated on a changed file between calculate_reserve_requirements
\* and perform_stress_testing, the cached reserve table and the cached
\* stress results are those of the current enriched table self.df, so the
\* files one export_reserve_analysis call writes describe one portfolio.
C26_CachedResultsDescribeCurrentTable ==
  /\ (Loaded /\ Analysed) => Val(reserve_analysis) = ReserveTable(Val(df))
  /\ (Loaded /\ Stressed) => Val(stress_test_results) = StressTable(Val(df))
  /\ (unwritable = {} /\ exported # None) =>
       \E f \in ReloadFiles :
         /\ exported.reserve_analysis = ReserveTable(PrepareData(f))
         /\ exported.stress_test_results = StressTable(PrepareData(f))

\* the row of the stress results for one scenario
StressRowOf(name) == CHOOSE row \in StressRows : row.Scenario = name

\* the quotient q1 is the quotient q2 with both operands multiplied by n / d
SameQuotient(q1, q2, n, d) ==
  /\ q1.k = q2.k
  /\ q1.k = "fin" =>
       \/ q1 = q2
       \/ /\ q1.num = Scale(q2.num, n, d)
          /\ q1.den = Scale(q2.den, n, d)

\* the Capital Adequacy does not increase with the claims multiplier among
\* the scenarios that leave the premiums as they are
AdequacyFallsWithClaims ==
  \A r1, r2 \in StressRows :
    (/\ r1.PremiumMultiplier = One
     /\ r2.PremiumMultiplier = One
     /\ Le(r1.ClaimsMultiplier, r2.ClaimsMultiplier))
      => Ge(r1.CapitalAdequacy, r2.CapitalAdequacy)

\* C27 as stated: for every portfolio with positive total premiums Economic
\* Downturn (1.8, 0.9) and Severe Stress (2.0, 1.0) have the same Adequacy
\* Status, the same Loss Ratio and the same Capital Ratio; among the
\* scenarios with premium multiplier 1.0 the Capital Adequacy is
\* non-increasing in the claims multiplier, so every scenario is Adequate
\* if Catastrophic Event is.
C27_DownturnEqualsSevereStress ==
  (Stressed /\ Gt(StressRowOf("Base Case").TotalPremiums, Zero)) =>
    /\ StressRowOf("Economic Downturn").AdequacyStatus
         = StressRowOf("Severe Stress").AdequacyStatus
    /\ SameQuotient(StressRowOf("Economic Downturn").LossRatio,
                    StressRowOf("Severe Stress").LossRatio, 9, 10)
    /\ SameQuotient(StressRowOf("Economic Downturn").CapitalRatio,
                    StressRowOf("Severe Stress").CapitalRatio, 9, 10)
    /\ AdequacyFallsWithClaims
    /\ StressRowOf("Catastrophic Event").AdequacyStatus = "Adequate" =>
         \A row \in StressRows : row.AdequacyStatus = "Adequate"

\* C27 as amended: for every portfolio with positive total premiums and
\* total claims that are not negative, the stressed claims and premiums of
\* Economic Downturn are 0.9 times those of Severe Stress, so that the two
\* scenarios have the same Loss Ratio and the same Capital Ratio as exact
\* quotients and the same Adequacy Status when the Capital Adequacy of
\* Severe Stress is not zero; among the scenarios with premium multiplier
\* 1.0 the Capital Adequacy is non-increasing in the claims multiplier, and
\* every scenario is Adequate if Catastrophic Event is.
C27_DownturnEqualsSevereStressAmended ==
  (/\ Stressed
   /\ Gt(StressRowOf("Base Case").TotalPremiums, Zero)
   /\ Ge(StressRowOf("Base Case").TotalClaims, Zero)) =>
    /\ StressRowOf("Economic Downturn").TotalClaims
         = Scale(StressRowOf("Severe Stress").TotalClaims, 9, 10)
    /\ StressRowOf("Economic Downturn").TotalPremiums
         = Scale(StressRowOf("Severe Stress").TotalPremiums, 9, 10)
    /\ SameQuotient(StressRowOf("Economic Downturn").LossRatio,
                    StressRowOf("Severe Stress").LossRatio, 9, 10)
    /\ SameQuotient(StressRowOf("Economic Downturn").CapitalRatio,
                    StressRowOf("Severe Stress").CapitalRatio, 9, 10)
    /\ StressRowOf("Severe Stress").CapitalAdequacy # Zero =>
         StressRowOf("Economic Downturn").AdequacyStatus
           = StressRowOf("Severe Stress").AdequacyStatus
    /\ AdequacyFallsWithClaims
    /\ StressRowOf("Catastrophic Event").AdequacyStatus = "Adequate" =>
         \A row \in StressRows : row.AdequacyStatus = "Adequate"

\* the stress results of a portfolio with claims whose premiums cover the
\* Catastrophic Event, and whose two scenarios have different operands
C27_Witness ==
  /\ Stressed
  /\ Gt(StressRowOf("Base Case").TotalPremiums, Zero)
  /\ Gt(StressRowOf("Base Case").TotalClaims, Zero)
  /\ StressRowOf("Catastrophic Event").AdequacyStatus = "Adequate"
  /\ StressRowOf("Economic Downturn").LossRatio
       # StressRowOf("Severe Stress").LossRatio
  /\ Gt(StressRowOf("Mild Stress").CapitalAdequacy,
        StressRowOf("Severe Stress").CapitalAdequacy)

\* the scores the files of one policy receive when they are loaded
ScoresOfSinglePolicies ==
  UNION { { r.RiskScore : r \in DOMAIN PrepareData(f) } :
            f \in SinglePolicyFiles }

\* C28: the largest risk score a policy record can receive is 12, by the
\* scorer of ReserveMonitoring and by the scorer of ExcelAutomation: no
\* record scores 13 or more, and every integer from 0 to 12 is the score of
\* some record.
C28_ScoreAtMostTwelve ==
  /\ Loaded =>
       \A r \in Rows :
         /\ r.RiskScore \in 0..12
         /\ ExcelAutomation_calculate_risk_score(r) \in 0..12
  /\ ScoresOfSinglePolicies = 0..12

\* a loaded record that takes the most points on every factor
C28_Witness ==
  /\ Loaded
  /\ \E r \in Rows :
       /\ r.RiskScore = 12
       /\ ExcelAutomation_calculate_risk_score(r) = 12
       /\ AgePoints(r) = 2 /\ ClaimsPoints(r) = 3 /\ HealthPoints(r) = 2
       /\ CreditPoints(r) = 2 /\ SmokingPoints(r) = 2
       /\ ExercisePoints(r) = 1

\* C29: for every risk category whose total premiums P are not negative,
\* the IBNR reserves (0.05 * P) never exceed the premium-based reserves
\* (0.15 * P), the risk-adjusted reserves exceed the premium-based ones
\* only for High and Very High, Total Required Reserves are the larger of
\* the claims-based reserves and P * max(0.15, multiplier of the category),
\* and the category is one of the four that have a multiplier.
C29_RequiredIsMaxOfTwo ==
  Analysed =>
    \A row \in ReserveRows :
      Ge(row.TotalPremiums, Zero) =>
        /\ Le(row.IBNRReserves, row.PremiumBasedReserves)
        /\ Gt(row.RiskAdjustedReserves, row.PremiumBasedReserves)
             => row.RiskCategory \in {"High", "Very High"}
        /\ row.TotalRequiredReserves
             = Max2(row.ClaimsBasedReserves,
                    Mul(row.TotalPremiums,
                        Max2(Num(0, 150000),
                             risk_multipliers(row.RiskCategory))))
        /\ row.RiskCategory \in {"Low", "Medium", "High", "Very High"}

\* a Very High category with premiums whose risk-adjusted reserves are the
\* required ones, above the premium-based and the claims-based reserves
C29_Witness ==
  /\ Analysed
  /\ \E row \in ReserveRows :
       /\ row.RiskCategory = "Very High"
       /\ Gt(row.TotalPremiums, Zero)
       /\ Gt(row.IBNRReserves, Zero)
       /\ Gt(row.RiskAdjustedReserves, row.PremiumBasedReserves)
       /\ Gt(row.RiskAdjustedReserves, row.ClaimsBasedReserves)
       /\ row.TotalRequiredReserves = row.RiskAdjustedReserves

\* the frame of the Excel sheet and its cells for the table in self.df
SheetFrame == create_reserve_monitoring_sheet(Val(df))

SheetCells(c) == reserve_monitoring_sheet_cells(SheetFrame[c])

\* the reserve table was computed from the table in self.df
SameTable == Loaded /\ Analysed /\ DOMAIN Val(reserve_analysis) = DOMAIN SheetFrame

\* C30 as stated: for the same enriched table and the same risk category,
\* the Required Reserves shown on the Excel "Reserve Monitoring" sheet never
\* exceed the Total Required Reserves of ReserveMonitoring, the Reserve
\* Surplus/Deficit shown never exceeds its Reserve Adequacy, and the two
\* reports agree exactly when the premium-based reserves are the binding
\* maximum.
C30_SheetNeverExceedsReserves ==
  SameTable =>
    \A c \in DOMAIN SheetFrame :
      /\ Le(SheetCells(c).RequiredReserves,
            Val(reserve_analysis)[c].TotalRequiredReserves)
      /\ Le(SheetCells(c).ReserveSurplusDeficit,
            Val(reserve_analysis)[c].ReserveAdequacy)
      /\ Val(reserve_analysis)[c].TotalRequiredReserves
           = Val(reserve_analysis)[c].PremiumBasedReserves
         <=> /\ SheetCells(c).RequiredReserves
                  = Val(reserve_analysis)[c].TotalRequiredReserves
             /\ SheetCells(c).ReserveSurplusDeficit
                  = Val(reserve_analysis)[c].ReserveAdequacy

\* C30 as amended: for the same enriched table and the same risk category,
\* the Required Reserves the sheet computes (0.15 * total premiums), before
\* they are formatted to two decimals, never exceed the Total Required
\* Reserves of ReserveMonitoring, the Reserve Surplus/Deficit it computes
\* never exceeds the Reserve Adequacy, and the two agree exactly when the
\* premium-based reserves are the binding maximum; the amounts shown are
\* these values rounded to two decimals.
C30_SheetNeverExceedsReservesAmended ==
  SameTable =>
    \A c \in DOMAIN SheetFrame :
      /\ Le(SheetFrame[c].RequiredReserves,
            Val(reserve_analysis)[c].TotalRequiredReserves)
      /\ Le(SheetFrame[c].ReserveSurplusDeficit,
            Val(reserve_analysis)[c].ReserveAdequacy)
      /\ Val(reserve_analysis)[c].TotalRequiredReserves
           = Val(reserve_analysis)[c].PremiumBasedReserves
         <=> /\ SheetFrame[c].RequiredReserves
                  = Val(reserve_analysis)[c].TotalRequiredReserves
             /\ SheetFrame[c].ReserveSurplusDeficit
                  = Val(reserve_analysis)[c].ReserveAdequacy
      /\ SheetCells(c).RequiredReserves
           = Round2(SheetFrame[c].RequiredReserves)
      /\ SheetCells(c).ReserveSurplusDeficit
           = Round2(SheetFrame[c].ReserveSurplusDeficit)

\* a table with a category whose premium-based reserves are binding and are
\* shown rounded up, and a category whose claims-based reserves are binding
C30_Witness ==
  /\ SameTable
  /\ \E c \in DOMAIN SheetFrame :
       /\ Val(reserve_analysis)[c].TotalRequiredReserves
            = Val(reserve_analysis)[c].PremiumBasedReserves
       /\ Gt(SheetFrame[c].RequiredReserves, Zero)
       /\ Gt(SheetCells(c).RequiredReserves, SheetFrame[c].RequiredReserves)
  /\ \E c \in DOMAIN SheetFrame :
       /\ Gt(SheetFrame[c].RequiredReserves, Zero)
       /\ Lt(SheetFrame[c].RequiredReserves,
             Val(reserve_analysis)[c].TotalRequiredReserves)
       /\ Lt(SheetFrame[c].ReserveSurplusDeficit,
             Val(reserve_analysis)[c].ReserveAdequacy)
=============================================================================
